---------------------------- MODULE Spec2Model ----------------------------
(***************************************************************************)
(* A model of the memory-mapped text dataset and of the online sample      *)
(* mapping of nemo/collections/llm/gpt/data/core.py.                        *)
(*                                                                         *)
(* The state machines of this module:                                      *)
(*   SpecSampler  an OnlineSampleMapping instance and calls of mapping[i]   *)
(*   SpecDist     the distributed construction of a TextMemMapDataset       *)
(*   SpecStore    building the index of data files, loading them and        *)
(*                reading records through TextMemMapDataset[i]              *)
(*   SpecSlice    slices of an OnlineSampleMapping                          *)
(*   SpecBuild    single calls of _build_memmap_index_files                 *)
(*   SpecRecord   decoding and parsing the records that are read            *)
(*   SpecPath     index base names under an index directory                 *)
(*   SpecTeardown the memory mappings from construction to release          *)
(*   SpecSft      GPTSFTDataset._process_example and its truncation         *)
(* numpy arrays are functions on 0..n-1, as the source indexes them.        *)
(***************************************************************************)
EXTENDS Integers, Sequences, FiniteSets, TLC

VARIABLES
    \* ---- OnlineSampleMapping
    rng,        \* which generator numpy.random.RandomState is
    ctor,       \* the arguments the instance was constructed with
    mapping,    \* the fields of the OnlineSampleMapping instance
    cache,      \* the lru_cache wrapped around get_sample_block, most recent first
    arg,        \* the index of the last mapping[idx] call
    ret,        \* what the last mapping[idx] call returned or raised
    cache_event, \* what the last call did to the cache
    \* ---- distributed construction of a TextMemMapDataset
    world,      \* the job: distributed or not, nodes, ranks per node, filesystems
    pc,         \* per rank: where it is in TextMemMapDataset.__init__
    calls,      \* per rank: how many torch.distributed.barrier() calls it has made
    disk,       \* per filesystem and data file: the state of the two sidecar files
    \* ---- one TextMemMapDataset over data files on one filesystem
    data_files, \* the bytes of each data file, in the order of the sorted paths
    sidecar,    \* per data file: the .idx.npy and .idx.info files
    dataset,    \* the fields of the TextMemMapDataset instance
    sarg,       \* the index of the last dataset[idx] call
    sret,       \* what the last dataset[idx] call returned or raised
    \* ---- one call of _build_memmap_index_files
    bcall,      \* the data file, the dtype of the scan result and the outcome
    \* ---- parsing the records of a TextMemMapDataset or JSONLMemMapDataset
    parser,     \* "none": no tokenizer, "tokenizer", or "json": JSONLMemMapDataset
    rdata,      \* what the last dataset[idx] call returned or raised
    \* ---- the index files of data files under an index directory
    index_mapping_dir, \* the override directory, <<>> when there is none
    dataset_paths,     \* the paths of the data files
    index_files,       \* per index base name on disk: the data file it was built from
    pcall,             \* the last call: data file, index base name, outcome
    \* ---- the memory mappings of a TextMemMapDataset instance
    mmaps,      \* per data file: the mmap of the np.memmap that load_file made
    released,   \* how many times __del__ ran, and whether the last run raised
    \* ---- GPTSFTDataset._process_example
    sft,        \* the fields of the GPTSFTDataset instance that truncation reads
    template_ids, \* the token ids of the pieces of the filled prompt template
    processed   \* the processed example

samplerVars == <<rng, ctor, mapping, cache, arg, ret, cache_event>>
distVars == <<world, pc, calls, disk>>
storeVars == <<data_files, sidecar, dataset, sarg, sret>>
buildVars == <<bcall>>
\* the variables of the machines added to the three of the header
recordVars == <<parser, rdata>>
pathVars == <<index_mapping_dir, dataset_paths, index_files, pcall>>
teardownVars == <<mmaps, released>>
sftVars == <<sft, template_ids, processed>>
auxVars == <<buildVars, recordVars, pathVars, teardownVars, sftVars>>
vars == <<samplerVars, distVars, storeVars, auxVars>>

-----------------------------------------------------------------------------
(* Bounds of the model *)
MaxDatasetSize == 5
MaxNumSamples == 5
MaxBlockSize == 3
MaxGen == 1
MaxBlocks == 3
MaxStep == 2
MaxRanks == 4
MaxNodes == 2
MaxFiles == 2
MaxBytes == 5
MaxHeaderLines == 2
\* the default newline_int of TextMemMapDataset
NewlineInt == 10
\* the default seed of OnlineSampleMapping
DefaultSeed == 1
\* the default cache_maxsize of OnlineSampleMapping
DefaultCacheMaxsize == 2

-----------------------------------------------------------------------------
(* numpy helpers *)

Min(a, b) == IF a <= b THEN a ELSE b
Max(a, b) == IF a >= b THEN a ELSE b

\* int(np.ceil(a / b)) for a >= 0, b >= 1
CeilDiv(a, b) == (a + b - 1) \div b

ALen(a) == Cardinality(DOMAIN a)

EmptyArr == [k \in {} |-> 0]

\* np.arange(lo, hi)
Arange(lo, hi) == [k \in 0..(hi - lo - 1) |-> lo + k]

\* np.full(n, v)
Full(n, v) == [k \in 0..(n - 1) |-> v]

RECURSIVE SumTo(_, _)
SumTo(a, k) == IF k < 0 THEN 0 ELSE a[k] + SumTo(a, k - 1)

\* np.cumsum(a)
CumSum(a) == [k \in DOMAIN a |-> SumTo(a, k)]

\* np.digitize(x, bins, right=False) for non-decreasing bins: the number of
\* bins that are <= x, i.e. the index i with bins[i-1] <= x < bins[i]
Digitize(x, bins) == Cardinality({k \in DOMAIN bins : bins[k] <= x})

\* a[k] with Python's negative indexing; InRange tells whether a[k] raises
InRange(a, k) == -ALen(a) <= k /\ k < ALen(a)
NpGet(a, k) == IF k >= 0 THEN a[k] ELSE a[ALen(a) + k]

\* a[idx] with an index array idx (fancy indexing)
Take(a, idx) == [k \in DOMAIN idx |-> a[idx[k]]]

RECURSIVE Factorial(_)
Factorial(n) == IF n <= 1 THEN 1 ELSE n * Factorial(n - 1)

\* the sequence s without its k-th element
RemoveAt(s, k) == SubSeq(s, 1, k - 1) \o SubSeq(s, k + 1, Len(s))

\* the k-th arrangement, in lexicographic order, of the elements of the sequence
\* items (0 <= k < Len(items)!)
RECURSIVE NthArrangement(_, _)
NthArrangement(items, k) ==
    IF Len(items) = 0 THEN <<>>
    ELSE LET f == Factorial(Len(items) - 1)
         IN  <<items[(k \div f) + 1]>> \o NthArrangement(RemoveAt(items, (k \div f) + 1), k % f)

\* a plausible slip: the elements are drawn with replacement (rng.choice)
PermutationWithReplacement(g, seed, a) ==
    LET n == ALen(a)
    IN  [k \in 0..(n - 1) |-> a[(k * (g + seed + 1)) % n]]

\* np.random.RandomState(seed).permutation(a). The generator is a deterministic
\* function of the seed and of the length of a; which function it is, is the
\* parameter g of the model: generator g draws arrangement number
\* g * (seed + 1) + seed (modulo n!) of n elements. Every arrangement of n
\* elements is drawn by some generator when MaxGen + 1 >= n!.
Permutation(g, seed, a) ==
    LET n == ALen(a)
        order == NthArrangement([k \in 1..n |-> k - 1], (g * (seed + 1) + seed) % Factorial(n))
    IN  [k \in 0..(n - 1) |-> a[order[k + 1]]]

-----------------------------------------------------------------------------
(* OnlineSampleMapping *)

\* a plausible slip: size the blocks for num_samples alone
RequiredSamplesNoCover(num_samples, dataset_size) == num_samples

\* __init__: "we need at least num_samples (up-sampling) or dataset_size
\* samples (correct down-sampling)"
RequiredSamples(num_samples, dataset_size) == Max(num_samples, dataset_size)

\* OnlineSampleMapping.__init__
NewMapping(t, dataset_size, num_samples_arg, block_size_arg, cache_maxsize, seed, shuffle, truncate) ==
    LET required0 == RequiredSamples(num_samples_arg, dataset_size)
        block_size == Min(block_size_arg, dataset_size)
        last0 == required0 % block_size
        blocks0 == CeilDiv(required0, block_size)
        cut == truncate /\ last0 # 0
        num_samples == IF cut /\ required0 = num_samples_arg
                       THEN num_samples_arg - last0 ELSE num_samples_arg
        num_blocks == IF cut THEN blocks0 - 1 ELSE blocks0
        required_samples == IF cut THEN required0 - last0 ELSE required0
        last_block_size == IF cut THEN 0 ELSE last0
        idx_list0 == Arange(0, num_blocks)
        size_list0 == [k \in 0..(num_blocks - 1) |->
                         IF last_block_size # 0 /\ k = num_blocks - 1
                         THEN last_block_size ELSE block_size]
        idx == Permutation(t, seed, Arange(0, num_blocks))
        block_idx_list == IF shuffle THEN Take(idx_list0, idx) ELSE idx_list0
        block_size_list == IF shuffle THEN Take(size_list0, idx) ELSE size_list0
    IN  [dataset_size |-> dataset_size,
         num_samples |-> num_samples,
         block_size |-> block_size,
         cache_maxsize |-> cache_maxsize,
         seed |-> seed,
         shuffle |-> shuffle,
         truncate_to_block_boundary |-> truncate,
         required_samples |-> required_samples,
         num_blocks |-> num_blocks,
         use_digitize |-> (last_block_size # 0),
         block_idx_list |-> block_idx_list,
         block_size_list |-> block_size_list,
         block_bins |-> CumSum(block_size_list)]

\* OnlineSampleMapping.__len__
MappingLen(m) == m.num_samples

\* a plausible slip: the block is not projected onto the dataset
SampleBlockNoModulo(t, m, block_idx) ==
    LET start_idx == m.block_idx_list[block_idx] * m.block_size
        end_idx == start_idx + m.block_size_list[block_idx]
        sample_block == Arange(start_idx, end_idx)
    IN  IF m.shuffle THEN Permutation(t, m.seed + block_idx, sample_block) ELSE sample_block

\* OnlineSampleMapping.get_sample_block, for block_idx < num_blocks
SampleBlock(t, m, block_idx) ==
    LET start_idx == m.block_idx_list[block_idx] * m.block_size
        end_idx == start_idx + m.block_size_list[block_idx]
        sample_block == Arange(start_idx, end_idx)
        shuffled == IF m.shuffle THEN Permutation(t, m.seed + block_idx, sample_block)
                    ELSE sample_block
    IN  [k \in DOMAIN shuffled |-> shuffled[k] % m.dataset_size]

\* the guard of get_sample_block: IndexError when block_idx >= num_blocks
BlockInRange(m, block_idx) == block_idx < m.num_blocks

\* a plausible slip: an index out of range is clamped onto the nearest valid one
WrapIndexClamps(m, idx) ==
    IF idx >= m.num_samples THEN m.num_samples - 1
    ELSE IF idx < 0 THEN Max(idx + m.num_samples, 0)
    ELSE idx

\* a plausible slip: a negative index counts from the start
WrapIndexMirrors(m, idx) ==
    IF idx >= m.num_samples THEN -1
    ELSE IF idx < 0 THEN (IF idx + m.num_samples < 0 THEN -1 ELSE -idx - 1)
    ELSE idx

\* __getitem__: the index after the range test and the wrap of a negative
\* index; -1 stands for IndexError
WrapIndex(m, idx) ==
    IF idx >= m.num_samples THEN -1
    ELSE IF idx < 0 THEN (IF idx + m.num_samples < 0 THEN -1 ELSE idx + m.num_samples)
    ELSE idx

\* __getitem__: the block holding the (wrapped) index
BlockOf(m, idx) ==
    IF m.use_digitize THEN Digitize(idx, m.block_bins) ELSE idx \div m.block_size

\* __getitem__: the offset inside the block; it is negative and indexes the
\* block from its end
LocalIdx(m, idx, block_idx) == idx - m.block_bins[block_idx]

Raised == [kind |-> "IndexError", val |-> -1]
Returned(v) == [kind |-> "value", val |-> v]

\* __getitem__ for an integer index, given the block that get_sample_block
\* (or its cache) hands back
GetItemFrom(m, idx, sample_block) ==
    LET local_idx == LocalIdx(m, idx, BlockOf(m, idx))
    IN  IF InRange(sample_block, local_idx)
        THEN Returned(NpGet(sample_block, local_idx))
        ELSE Raised

\* mapping[idx] with get_sample_block recomputed on every call
GetItemUncached(t, m, i) ==
    LET idx == WrapIndex(m, i)
    IN  IF idx < 0 THEN Raised
        ELSE IF ~BlockInRange(m, BlockOf(m, idx)) THEN Raised
        ELSE GetItemFrom(m, idx, SampleBlock(t, m, BlockOf(m, idx)))

\* a plausible slip: __reduce__ hands back required_samples for num_samples
ReduceArgsRequired(m) ==
    [dataset_size |-> m.dataset_size, num_samples |-> m.required_samples,
     block_size |-> m.block_size, cache_maxsize |-> m.cache_maxsize, seed |-> m.seed,
     shuffle |-> m.shuffle, truncate_to_block_boundary |-> m.truncate_to_block_boundary]

\* OnlineSampleMapping.__reduce__: the arguments to recreate the object
ReduceArgs(m) ==
    [dataset_size |-> m.dataset_size, num_samples |-> m.num_samples,
     block_size |-> m.block_size, cache_maxsize |-> m.cache_maxsize, seed |-> m.seed,
     shuffle |-> m.shuffle, truncate_to_block_boundary |-> m.truncate_to_block_boundary]

\* self.__class__(*args): the constructor applied to an argument record
Construction(t, a) ==
    NewMapping(t, a.dataset_size, a.num_samples, a.block_size, a.cache_maxsize,
               a.seed, a.shuffle, a.truncate_to_block_boundary)

\* functools.lru_cache(maxsize): entries [key, val], most recently used first
CacheHit(c, key) == \E k \in 1..Len(c) : c[k].key = key
\* a plausible slip: a hit hands back the most recently used entry
CacheGetMostRecent(c, key) == 1
CacheGet(c, key) == (CHOOSE k \in 1..Len(c) : c[k].key = key)
CacheWithout(c, key) == SelectSeq(c, LAMBDA e : e.key # key)
CacheStore(c, maxsize, key, val) ==
    SubSeq(<<[key |-> key, val |-> val]>> \o CacheWithout(c, key), 1,
           Min(maxsize, Len(CacheWithout(c, key)) + 1))

\* a plausible slip: a cache that does not tell its keys apart
CachedBlockAnyKey(c, t, m, block_idx) ==
    IF Len(c) > 0 THEN c[1].val ELSE SampleBlock(t, m, block_idx)

\* self.get_sample_block after line 1369 wrapped it: a hit hands back the stored
\* block, a miss calls get_sample_block
CachedBlock(c, t, m, block_idx) ==
    IF CacheHit(c, block_idx) THEN c[CacheGet(c, block_idx)].val
    ELSE SampleBlock(t, m, block_idx)

\* what the call did to the cache: "hit", "miss" (stored, nothing dropped),
\* "evict" (stored, least recently used entry dropped), "bypass" (maxsize 0)
CacheEvent(c, maxsize, key) ==
    IF CacheHit(c, key) THEN "hit"
    ELSE IF maxsize = 0 THEN "bypass"
    ELSE IF Len(c) >= maxsize THEN "evict"
    ELSE "miss"

-----------------------------------------------------------------------------
(* The variables of one state machine while another one runs *)

NoCall == [kind |-> "none", val |-> -1]

SamplerIdle ==
    /\ rng = 0 /\ ctor = <<>> /\ mapping = <<>> /\ cache = <<>>
    /\ arg = 0 /\ ret = NoCall /\ cache_event = "none"

DistIdle ==
    /\ world = <<>> /\ pc = <<>> /\ calls = <<>> /\ disk = <<>>

NoRead == [kind |-> "none", file_id |-> 0, file_idx |-> 0, i |-> 0, j |-> 0, text |-> <<>>]

StoreIdle ==
    /\ data_files = <<>> /\ sidecar = <<>> /\ dataset = <<>>
    /\ sarg = 0 /\ sret = NoRead

NoBuild == [fn |-> -1, dtype |-> "", ret |-> "none"]

BuildIdle == bcall = NoBuild

NoData == [kind |-> "none", data |-> <<>>]

RecordIdle == parser = "none" /\ rdata = NoData

NoPathCall == [fn |-> -1, idx_fn |-> <<>>, ret |-> "none", built_from |-> -1]

PathIdle ==
    /\ index_mapping_dir = <<>> /\ dataset_paths = <<>>
    /\ index_files = {} /\ pcall = NoPathCall

NotReleased == [count |-> 0, ret |-> "none"]

TeardownIdle == mmaps = <<>> /\ released = NotReleased

NotProcessed == [done |-> FALSE]

SftIdle == sft = <<>> /\ template_ids = <<>> /\ processed = NotProcessed

AuxIdle == BuildIdle /\ RecordIdle /\ PathIdle /\ TeardownIdle /\ SftIdle

-----------------------------------------------------------------------------
(* SpecSampler: one OnlineSampleMapping and the calls made on it *)

\* the seeds of a construction: the default one (get_sample_block seeds its
\* generators with seed + block_idx, so DefaultSeed..DefaultSeed + MaxBlocks - 1
\* are drawn from)
Seeds(shuffle) == {DefaultSeed}
\* the valid indices of a mapping and the first invalid one on either side
Indices(m) == (-(m.num_samples + 1))..m.num_samples

\* the generators a construction can run on; one when nothing is shuffled
Generators(shuffle) == IF shuffle THEN 0..MaxGen ELSE {0}

SamplerInit ==
    \E dataset_size \in 1..MaxDatasetSize, num_samples \in 1..MaxNumSamples,
       block_size \in 1..MaxBlockSize, cache_maxsize \in 0..DefaultCacheMaxsize,
       shuffle \in BOOLEAN, truncate \in BOOLEAN :
        \E seed \in Seeds(shuffle), t \in Generators(shuffle) :
            \* mappings of up to MaxBlocks blocks
            /\ CeilDiv(Max(num_samples, dataset_size), Min(block_size, dataset_size)) <= MaxBlocks
            /\ rng = t
            /\ ctor = [dataset_size |-> dataset_size, num_samples |-> num_samples,
                       block_size |-> block_size, cache_maxsize |-> cache_maxsize,
                       seed |-> seed, shuffle |-> shuffle,
                       truncate_to_block_boundary |-> truncate]
            /\ mapping = Construction(t, ctor)
            /\ cache = <<>>
            /\ arg = 0
            /\ ret = NoCall
            /\ cache_event = "none"
            /\ DistIdle
            /\ StoreIdle
            /\ AuxIdle

\* mapping[i] for an integer i
GetItem(i) ==
    LET idx == WrapIndex(mapping, i)
        block_idx == BlockOf(mapping, idx)
    IN  /\ arg' = i
        /\ UNCHANGED <<rng, ctor, mapping>>
        /\ UNCHANGED <<distVars, storeVars, auxVars>>
        /\ IF idx < 0 \/ ~BlockInRange(mapping, block_idx)
           THEN /\ ret' = Raised
                /\ cache_event' = "none"
                /\ UNCHANGED cache
           ELSE LET sample_block == CachedBlock(cache, rng, mapping, block_idx)
                IN  /\ ret' = GetItemFrom(mapping, idx, sample_block)
                    /\ cache_event' = CacheEvent(cache, mapping.cache_maxsize, block_idx)
                    /\ cache' = CacheStore(cache, mapping.cache_maxsize, block_idx, sample_block)

SamplerNext == \E i \in Indices(mapping) : GetItem(i)

SpecSampler == SamplerInit /\ [][SamplerNext]_vars

-----------------------------------------------------------------------------
(* Claims about OnlineSampleMapping, checked under SpecSampler *)

Called == ret.kind # "none"
ValidArg == 0 <= arg /\ arg < MappingLen(mapping)
Records == 0..(mapping.dataset_size - 1)

\* C1: for every construction with dataset_size, num_samples, block_size >= 1
\* and any shuffle, seed and truncate_to_block_boundary, mapping[i] with
\* 0 <= i < len(mapping) returns, without raising, a value in [0, dataset_size).
C1_ValidIndexResolves ==
    (Called /\ ValidArg) => (ret.kind = "value" /\ ret.val \in Records)

\* C2: with shuffle=False and truncate_to_block_boundary=False, mapping[i] is
\* i % dataset_size for every i in [0, num_samples), whatever the block size.
C2_UnshuffledIsModulo ==
    (Called /\ ValidArg /\ ~mapping.shuffle /\ ~mapping.truncate_to_block_boundary)
        => ret = Returned(arg % mapping.dataset_size)

\* C2 witness: an unshuffled, untruncated, up-sampled mapping whose final block
\* is short, read at an index of that final block.
C2_Witness ==
    /\ ~mapping.shuffle /\ ~mapping.truncate_to_block_boundary
    /\ mapping.use_digitize /\ mapping.num_blocks >= 2
    /\ mapping.num_samples > mapping.dataset_size
    /\ mapping.block_size < mapping.dataset_size
    /\ arg >= mapping.block_bins[mapping.num_blocks - 2] /\ ValidArg
    /\ ret.kind = "value"

\* the records that some valid index of the mapping resolves to
Resolved(n) == {v \in Records : \E i \in 0..(n - 1) : GetItemUncached(rng, mapping, i) = Returned(v)}
\* the records that some block of the mapping holds
InBlocks == {v \in Records : \E b \in 0..(mapping.num_blocks - 1) :
                \E k \in DOMAIN SampleBlock(rng, mapping, b) : SampleBlock(rng, mapping, b)[k] = v}

\* C3 as stated: with truncate_to_block_boundary=False every record appears
\* among resolve(i) for i in [0, max(num_samples, dataset_size)).
C3_EveryRecordResolved ==
    (Called /\ ~mapping.truncate_to_block_boundary)
        => Resolved(Max(mapping.num_samples, mapping.dataset_size)) = Records

\* C3 amended: with truncate_to_block_boundary=False the blocks hold every
\* record; the valid indices resolve to every record when
\* num_samples >= dataset_size, and to fewer than dataset_size records when
\* num_samples < dataset_size (the indices from num_samples on raise).
C3_Coverage ==
    (Called /\ ~mapping.truncate_to_block_boundary) =>
        /\ InBlocks = Records
        /\ mapping.num_samples >= mapping.dataset_size => Resolved(mapping.num_samples) = Records
        /\ mapping.num_samples < mapping.dataset_size =>
              /\ Cardinality(Resolved(mapping.num_samples)) <= mapping.num_samples
              /\ \A i \in mapping.num_samples..(mapping.dataset_size - 1) :
                    GetItemUncached(rng, mapping, i) = Raised

\* C3 witness: a shuffled down-sampling mapping has returned a record, and a
\* record held by a block is resolved by no valid index.
C3_Witness ==
    /\ ~mapping.truncate_to_block_boundary /\ mapping.shuffle
    /\ mapping.num_samples < mapping.dataset_size
    /\ mapping.num_blocks >= 2
    /\ ret.kind = "value"
    /\ InBlocks \ Resolved(mapping.num_samples) # {}

\* C4: every call returns what the uncached mapping returns for that index,
\* through cache hits, misses and evictions and for every cache size.
C4_CacheTransparent ==
    Called => ret = GetItemUncached(rng, mapping, arg)

\* C4 witness: a hit on a full cache that is smaller than the number of blocks
\* of a shuffled mapping.
C4_Witness ==
    /\ cache_event = "hit" /\ ret.kind = "value"
    /\ mapping.shuffle
    /\ Len(cache) = mapping.cache_maxsize
    /\ mapping.num_blocks > mapping.cache_maxsize

\* the indices out of range, up to num_samples past either end
Beyond(m) == {i \in (-2 * m.num_samples - 1)..(2 * m.num_samples) :
                 i >= m.num_samples \/ i < -m.num_samples}

\* C15: mapping[i] raises IndexError for every i >= num_samples and every
\* i < -num_samples; the index is not clamped or wrapped onto a valid one and
\* get_sample_block is not called for it.
C15_OutOfRangeRaises ==
    /\ \A i \in Beyond(mapping) : GetItemUncached(rng, mapping, i) = Raised
    /\ (Called /\ arg \in Beyond(mapping)) => (ret = Raised /\ cache_event = "none")

\* C15 witness: after calls that filled the cache, a call with the index
\* -num_samples - 1 raised.
C15_Witness ==
    /\ Called /\ arg = -mapping.num_samples - 1
    /\ ret = Raised
    /\ Len(cache) >= 2

\* C16: for every k with 1 <= k <= num_samples, mapping[-k] returns what
\* mapping[num_samples - k] returns.
C16_NegativeWraps ==
    /\ \A k \in 1..mapping.num_samples :
          GetItemUncached(rng, mapping, -k) = GetItemUncached(rng, mapping, mapping.num_samples - k)
    /\ (Called /\ arg < 0 /\ arg >= -mapping.num_samples) =>
          ret = GetItemUncached(rng, mapping, mapping.num_samples + arg)

\* C16 witness: mapping[-num_samples] of a shuffled mapping of several blocks
\* returned a record other than record 0.
C16_Witness ==
    /\ Called /\ arg = -mapping.num_samples /\ mapping.num_samples >= 2
    /\ mapping.shuffle /\ mapping.num_blocks >= 2
    /\ ret.kind = "value" /\ ret.val # 0

\* another instance constructed with the same arguments and cache size c
Twin(c) == Construction(rng, [ctor EXCEPT !.cache_maxsize = c])

\* C17: an instance constructed with the same dataset_size, num_samples,
\* block_size, seed, shuffle and truncate_to_block_boundary, and any cache
\* size, has the same length and returns for every index what this instance
\* returns; calls do not change the fields __init__ set, and whatever calls
\* were made before, a call returns what a fresh instance returns.
C17_Deterministic ==
    /\ ~Called =>
          \A c \in 0..DefaultCacheMaxsize : \A twin \in {Twin(c)} :
              /\ MappingLen(twin) = MappingLen(mapping)
              /\ \A i \in Indices(mapping) :
                    GetItemUncached(rng, twin, i) = GetItemUncached(rng, mapping, i)
    /\ Called =>
          \A twin \in {Twin(mapping.cache_maxsize)} :
              /\ mapping = twin
              /\ ret = GetItemUncached(rng, twin, arg)

\* C17 witness: a shuffled mapping of several blocks with a cache of one block
\* returned a record from the cache, after an eviction.
C17_Witness ==
    /\ mapping.shuffle /\ mapping.num_blocks >= 3 /\ mapping.cache_maxsize = 1
    /\ cache_event = "hit" /\ ret.kind = "value"
    /\ arg >= mapping.block_size

\* the instance that pickle recreates from __reduce__
Rebuilt(m) == Construction(rng, ReduceArgs(m))

\* C18: the instance rebuilt from the arguments of __reduce__ has the same
\* length and returns the same for every index, and rebuilding it again
\* changes nothing, also when __init__ clamped block_size or lowered
\* num_samples.
C18_ReduceRebuilds ==
    \A rebuilt \in {Rebuilt(mapping)} :
        /\ MappingLen(rebuilt) = MappingLen(mapping)
        /\ ~Called =>
              /\ \A i \in Indices(mapping) :
                    GetItemUncached(rng, rebuilt, i) = GetItemUncached(rng, mapping, i)
              /\ Rebuilt(rebuilt) = rebuilt
        /\ Called => ret = GetItemUncached(rng, rebuilt, arg)

\* C18 witness: __init__ clamped block_size and lowered num_samples on a
\* shuffled, truncated mapping, which then returned a record.
C18_Witness ==
    /\ ctor.block_size > mapping.block_size
    /\ ctor.num_samples > mapping.num_samples
    /\ mapping.shuffle /\ mapping.truncate_to_block_boundary
    /\ ret.kind = "value"

-----------------------------------------------------------------------------
(* SpecSlice: mapping[start:stop:step] on a fresh OnlineSampleMapping *)

\* an optional integer: None, or the integer v
None == [none |-> TRUE, v |-> 0]
Some(v) == [none |-> FALSE, v |-> v]
OrElse(o, d) == IF o.none THEN d ELSE o.v

\* handle_index(dataset, idx): a negative index counts from the end; the
\* result is clamped at 0
HandleIndex(n, idx) == IF idx < 0 THEN Max(idx + n, 0) ELSE idx

\* list(range(a, b, step)) for step # 0
RangeLen(a, b, step) ==
    IF step > 0 THEN (IF b > a THEN CeilDiv(b - a, step) ELSE 0)
    ELSE (IF a > b THEN CeilDiv(a - b, -step) ELSE 0)
Range(a, b, step) == [k \in 1..RangeLen(a, b, step) |-> a + (k - 1) * step]

\* __getitem__ for a slice: the indices range(start, stop, step) it reads
SliceIndices(m, sl) ==
    LET start0 == HandleIndex(m.num_samples, OrElse(sl.start, 0))
        start == IF start0 >= m.num_samples THEN m.num_samples ELSE start0
        stop0 == HandleIndex(m.num_samples, OrElse(sl.stop, m.num_samples))
        stop == IF stop0 >= m.num_samples THEN m.num_samples ELSE stop0
        step == OrElse(sl.step, 1)
    IN  Range(start, stop, step)

\* what a slice call returns or raises; val is a list here
SliceRaised(kind) == [kind |-> kind, val |-> <<>>]
SliceReturned(vals) == [kind |-> "list", val |-> vals]

\* [self[idx] for idx in ...]: the cache and the values after the first k
\* reads, and whether one of them raised
RECURSIVE ReadAll(_, _, _, _, _)
ReadAll(c, t, m, idxs, k) ==
    IF k = 0 THEN [cache |-> c, vals |-> <<>>, raised |-> FALSE]
    ELSE \* bind the result of the first k - 1 reads once
         CHOOSE out \in
           {IF before.raised THEN before
            ELSE LET idx == WrapIndex(m, idxs[k])
                     block_idx == BlockOf(m, idx)
                 IN  IF idx < 0 \/ ~BlockInRange(m, block_idx)
                     THEN [before EXCEPT !.raised = TRUE]
                     ELSE LET sample_block == CachedBlock(before.cache, t, m, block_idx)
                              got == GetItemFrom(m, idx, sample_block)
                          IN  IF got.kind # "value" THEN [before EXCEPT !.raised = TRUE]
                              ELSE [cache |-> CacheStore(before.cache, m.cache_maxsize,
                                                         block_idx, sample_block),
                                    vals |-> Append(before.vals, got.val),
                                    raised |-> FALSE]
            : before \in {ReadAll(c, t, m, idxs, k - 1)}} : TRUE

\* the slices of the model: start and stop are None or reach one past
\* num_samples on either side, step is None or up to MaxStep either way
Bounds(m) == {None} \cup {Some(v) : v \in (-(m.num_samples + 1))..(m.num_samples + 1)}
Steps == {None} \cup {Some(v) : v \in (-MaxStep)..MaxStep}
Slices(m) == [start : Bounds(m), stop : Bounds(m), step : Steps]

\* a fresh instance with the default cache size, and the slice it is asked for
SliceInit ==
    \E dataset_size \in 1..MaxDatasetSize, num_samples \in 1..MaxNumSamples,
       block_size \in 1..MaxBlockSize, shuffle \in BOOLEAN, truncate \in BOOLEAN :
        \E seed \in Seeds(shuffle), t \in Generators(shuffle) :
            /\ CeilDiv(Max(num_samples, dataset_size), Min(block_size, dataset_size)) <= MaxBlocks
            /\ rng = t
            /\ ctor = [dataset_size |-> dataset_size, num_samples |-> num_samples,
                       block_size |-> block_size, cache_maxsize |-> DefaultCacheMaxsize,
                       seed |-> seed, shuffle |-> shuffle,
                       truncate_to_block_boundary |-> truncate]
            /\ mapping = Construction(t, ctor)
            /\ cache = <<>>
            /\ arg \in Slices(mapping)
            /\ ret = NoCall
            /\ cache_event = "none"
            /\ DistIdle
            /\ StoreIdle
            /\ AuxIdle

\* mapping[start:stop:step], the first call on the instance
GetSlice ==
    /\ ret = NoCall
    /\ UNCHANGED <<rng, ctor, mapping, arg>>
    /\ UNCHANGED <<distVars, storeVars, auxVars>>
    /\ cache_event' = "slice"
    /\ IF OrElse(arg.step, 1) = 0
       THEN \* range() arg 3 must not be zero
            /\ ret' = SliceRaised("ValueError")
            /\ UNCHANGED cache
       ELSE \E out \in {ReadAll(cache, rng, mapping, SliceIndices(mapping, arg),
                                 Len(SliceIndices(mapping, arg)))} :
                /\ cache' = out.cache
                /\ ret' = IF out.raised THEN SliceRaised("IndexError")
                           ELSE SliceReturned(out.vals)

SliceNext == GetSlice

SpecSlice == SliceInit /\ [][SliceNext]_vars

-----------------------------------------------------------------------------
(* Claims about slices, checked under SpecSlice *)

\* slice(start, stop, step).indices(n) and the range it stands for: the
\* indices of list(range(n))[start:stop:step], for step # 0
PySliceIndices(n, sl) ==
    LET step == OrElse(sl.step, 1)
        lower == IF step < 0 THEN -1 ELSE 0
        upper == IF step < 0 THEN n - 1 ELSE n
        Clamp(o, d) == IF o.none THEN d
                       ELSE IF o.v < 0 THEN Max(o.v + n, lower)
                       ELSE Min(o.v, upper)
        start == Clamp(sl.start, IF step < 0 THEN upper ELSE lower)
        stop == Clamp(sl.stop, IF step < 0 THEN lower ELSE upper)
    IN  Range(start, stop, step)

\* the values mapping[j] for the indices j, in order; IndexError when one of
\* them raises
ValuesAt(idxs) ==
    IF \E k \in 1..Len(idxs) : GetItemUncached(rng, mapping, idxs[k]).kind # "value"
    THEN SliceRaised("IndexError")
    ELSE SliceReturned([k \in 1..Len(idxs) |-> GetItemUncached(rng, mapping, idxs[k]).val])

\* C19: mapping[start:stop:step] returns, in order, the values mapping[j] for
\* the indices j of list(range(num_samples))[start:stop:step], for every
\* start, stop and step: None, negative, beyond either end, negative steps.
C19_SliceIsPythonSlice ==
    (Called /\ OrElse(arg.step, 1) # 0) =>
        ret = ValuesAt(PySliceIndices(mapping.num_samples, arg))

-----------------------------------------------------------------------------
(* SpecDist: TextMemMapDataset.__init__ run by the ranks of a job *)

\* rank r runs on node r \div per_node as local rank r % per_node
Ranks(w) == 0..(w.nodes * w.per_node - 1)
NodeOf(w, r) == r \div w.per_node
LocalRank(w, r) == r % w.per_node
\* the filesystem a rank reads and writes index files on
FsOf(w, r) == IF w.shared_fs THEN 0 ELSE NodeOf(w, r)
Filesystems(w) == {FsOf(w, r) : r \in Ranks(w)}
Files(w) == 1..w.files

\* a plausible slip: every rank builds first
BuildsOnEveryRank(w, r) == TRUE

\* line 1000: "Create index files on global rank 0"
BuildsOnGlobalRankZero(w, r) == ~w.distributed \/ (w.distributed /\ r = 0)

\* a plausible slip: no second build on the other nodes
BuildsOnLocalRankZeroNever(w, r) == FALSE

\* line 1013: the second build, on local rank 0 of every node
BuildsOnLocalRankZero(w, r) == w.distributed /\ LocalRank(w, r) = 0

\* a plausible slip: the barrier is called inside prepare_data too
UsesBarrierAlways(w, r) == w.distributed

\* lines 1010 and 1035: whether the rank calls torch.distributed.barrier()
UsesBarrier(w, r) == w.distributed /\ ~w.prepare_data

\* _index_file_exists: both sidecar files exist, whatever they hold
IndexFileExists(d) == d.npy # "absent" /\ d.info # "absent"

\* both sidecar files are there and fully written
IndexComplete(d) == d.npy = "complete" /\ d.info = "complete"

Absent == [npy |-> "absent", info |-> "absent"]
Complete == [npy |-> "complete", info |-> "complete"]

\* the order of the steps of __init__
After(at) ==
    CASE at = "build_global" -> "barrier_1"
      [] at = "barrier_1" -> "wait_1"
      [] at = "wait_1" -> "build_local"
      [] at = "build_local" -> "barrier_2"
      [] at = "barrier_2" -> "wait_2"
      [] at = "wait_2" -> "load"

At(at) == [at |-> at, file |-> 1, step |-> "check"]

InBuildStage(r) == pc[r].at \in {"build_global", "build_local"}
Builds(r) ==
    IF pc[r].at = "build_global" THEN BuildsOnGlobalRankZero(world, r)
    ELSE BuildsOnLocalRankZero(world, r)
OnDisk(r) == disk[FsOf(world, r)][pc[r].file]
Write(r, d) == disk' = [disk EXCEPT ![FsOf(world, r)][pc[r].file] = d]

\* the ranks that construct the dataset: all of them; inside prepare_data
\* (which Lightning runs on local rank 0 only) the local ranks 0
Constructs(w, r) == ~w.prepare_data \/ LocalRank(w, r) = 0

DistInit ==
    /\ SamplerIdle
    /\ StoreIdle
    /\ AuxIdle
    /\ \E distributed \in BOOLEAN, nodes \in 1..MaxNodes, per_node \in 1..MaxRanks,
          shared_fs \in BOOLEAN, prepare_data \in BOOLEAN, files \in 1..MaxFiles :
         /\ nodes * per_node <= MaxRanks
         /\ ~distributed => (nodes = 1 /\ per_node = 1 /\ shared_fs /\ ~prepare_data)
         /\ world = [distributed |-> distributed, nodes |-> nodes, per_node |-> per_node,
                     shared_fs |-> shared_fs, prepare_data |-> prepare_data, files |-> files]
    /\ pc = [r \in Ranks(world) |->
               IF Constructs(world, r) THEN At("build_global") ELSE At("absent")]
    /\ calls = [r \in Ranks(world) |-> 0]
    \* on each filesystem the index files are there from an earlier run, or not
    /\ \E have \in SUBSET Filesystems(world) :
         disk = [x \in Filesystems(world) |->
                   [f \in Files(world) |-> IF x \in have THEN Complete ELSE Absent]]

\* the rank is not one that builds at this step
SkipBuild(r) ==
    /\ InBuildStage(r) /\ ~Builds(r)
    /\ pc' = [pc EXCEPT ![r] = At(After(pc[r].at))]
    /\ UNCHANGED <<world, calls, disk>>
    /\ UNCHANGED <<samplerVars, storeVars, auxVars>>

\* _build_memmap_index_files: both files exist, return False
BuildReturnFalse(r) ==
    /\ InBuildStage(r) /\ Builds(r)
    /\ pc[r].step = "check" /\ pc[r].file <= world.files
    /\ IndexFileExists(OnDisk(r))
    /\ pc' = [pc EXCEPT ![r].file = @ + 1]
    /\ UNCHANGED <<world, calls, disk>>
    /\ UNCHANGED <<samplerVars, storeVars, auxVars>>

\* _build_memmap_index_files: a file is missing, scan the data file
BuildScan(r) ==
    /\ InBuildStage(r) /\ Builds(r)
    /\ pc[r].step = "check" /\ pc[r].file <= world.files
    /\ ~IndexFileExists(OnDisk(r))
    /\ pc' = [pc EXCEPT ![r].step = "save_npy"]
    /\ UNCHANGED <<world, calls, disk>>
    /\ UNCHANGED <<samplerVars, storeVars, auxVars>>

\* np.save creates the .npy file ...
SaveNpy(r) ==
    /\ InBuildStage(r) /\ pc[r].step = "save_npy"
    /\ Write(r, [OnDisk(r) EXCEPT !.npy = "partial"])
    /\ pc' = [pc EXCEPT ![r].step = "saving_npy"]
    /\ UNCHANGED <<world, calls>>
    /\ UNCHANGED <<samplerVars, storeVars, auxVars>>

\* ... and has written it
SaveNpyDone(r) ==
    /\ InBuildStage(r) /\ pc[r].step = "saving_npy"
    /\ Write(r, [OnDisk(r) EXCEPT !.npy = "complete"])
    /\ pc' = [pc EXCEPT ![r].step = "dump_info"]
    /\ UNCHANGED <<world, calls>>
    /\ UNCHANGED <<samplerVars, storeVars, auxVars>>

\* open(idx_fn + ".info", "wb") creates the .info file ...
DumpInfo(r) ==
    /\ InBuildStage(r) /\ pc[r].step = "dump_info"
    /\ Write(r, [OnDisk(r) EXCEPT !.info = "partial"])
    /\ pc' = [pc EXCEPT ![r].step = "dumping_info"]
    /\ UNCHANGED <<world, calls>>
    /\ UNCHANGED <<samplerVars, storeVars, auxVars>>

\* ... and pickle.dump has written it; return True, on to the next file
DumpInfoDone(r) ==
    /\ InBuildStage(r) /\ pc[r].step = "dumping_info"
    /\ Write(r, [OnDisk(r) EXCEPT !.info = "complete"])
    /\ pc' = [pc EXCEPT ![r].step = "check", ![r].file = @ + 1]
    /\ UNCHANGED <<world, calls>>
    /\ UNCHANGED <<samplerVars, storeVars, auxVars>>

\* build_index_files has gone through every data file
BuildFilesDone(r) ==
    /\ InBuildStage(r) /\ Builds(r)
    /\ pc[r].step = "check" /\ pc[r].file > world.files
    /\ pc' = [pc EXCEPT ![r] = At(After(pc[r].at))]
    /\ UNCHANGED <<world, calls, disk>>
    /\ UNCHANGED <<samplerVars, storeVars, auxVars>>

\* torch.distributed.barrier(): the rank enters its next barrier
BarrierCall(r) ==
    /\ pc[r].at \in {"barrier_1", "barrier_2"} /\ UsesBarrier(world, r)
    /\ calls' = [calls EXCEPT ![r] = @ + 1]
    /\ pc' = [pc EXCEPT ![r] = At(After(pc[r].at))]
    /\ UNCHANGED <<world, disk>>
    /\ UNCHANGED <<samplerVars, storeVars, auxVars>>

\* the barrier is not called (not distributed, or inside prepare_data)
BarrierSkip(r) ==
    /\ pc[r].at \in {"barrier_1", "barrier_2"} /\ ~UsesBarrier(world, r)
    /\ pc' = [pc EXCEPT ![r] = At(After(After(pc[r].at)))]
    /\ UNCHANGED <<world, calls, disk>>
    /\ UNCHANGED <<samplerVars, storeVars, auxVars>>

\* the k-th barrier call of a rank returns once every rank of the job has
\* made its k-th barrier call
BarrierPass(r) ==
    /\ pc[r].at \in {"wait_1", "wait_2"}
    /\ \A q \in Ranks(world) : calls[q] >= calls[r]
    /\ pc' = [pc EXCEPT ![r] = At(After(pc[r].at))]
    /\ UNCHANGED <<world, calls, disk>>
    /\ UNCHANGED <<samplerVars, storeVars, auxVars>>

\* load_file on every data file: fails unless the index files can be read
LoadFiles(r) ==
    /\ pc[r].at = "load"
    /\ pc' = [pc EXCEPT ![r] =
                 IF \A f \in Files(world) : IndexComplete(disk[FsOf(world, r)][f])
                 THEN At("loaded") ELSE At("failed")]
    /\ UNCHANGED <<world, calls, disk>>
    /\ UNCHANGED <<samplerVars, storeVars, auxVars>>

RankStep(r) ==
    /\ r \in Ranks(world)
    /\ \/ SkipBuild(r) \/ BuildReturnFalse(r) \/ BuildScan(r)
       \/ SaveNpy(r) \/ SaveNpyDone(r) \/ DumpInfo(r) \/ DumpInfoDone(r)
       \/ BuildFilesDone(r)
       \/ BarrierCall(r) \/ BarrierSkip(r) \/ BarrierPass(r)
       \/ LoadFiles(r)

DistNext ==
    \/ \E r \in Ranks(world) : SkipBuild(r)
    \/ \E r \in Ranks(world) : BuildReturnFalse(r)
    \/ \E r \in Ranks(world) : BuildScan(r)
    \/ \E r \in Ranks(world) : SaveNpy(r)
    \/ \E r \in Ranks(world) : SaveNpyDone(r)
    \/ \E r \in Ranks(world) : DumpInfo(r)
    \/ \E r \in Ranks(world) : DumpInfoDone(r)
    \/ \E r \in Ranks(world) : BuildFilesDone(r)
    \/ \E r \in Ranks(world) : BarrierCall(r)
    \/ \E r \in Ranks(world) : BarrierSkip(r)
    \/ \E r \in Ranks(world) : BarrierPass(r)
    \/ \E r \in Ranks(world) : LoadFiles(r)

SpecDist == DistInit /\ [][DistNext]_vars

\* every process keeps running and every build call returns
SpecDistFair == SpecDist /\ \A r \in 0..(MaxRanks - 1) : WF_vars(RankStep(r))

-----------------------------------------------------------------------------
(* Claims about the distributed construction *)

BarriersActive == world.distributed /\ ~world.prepare_data
Constructing == {r \in Ranks(world) : Constructs(world, r)}

\* rank r is between finding an index file missing and the end of the write
\* of the .info file of data file f on filesystem x
InsideBuild(r, x, f) ==
    /\ InBuildStage(r) /\ FsOf(world, r) = x /\ pc[r].file = f
    /\ pc[r].step \in {"save_npy", "saving_npy", "dump_info", "dumping_info"}

\* C5: with barriers active, whenever a rank is in the load phase both sidecar
\* files of every data file exist and are fully written on the filesystem of
\* that rank (so no load fails).
C5_LoadSeesCompleteIndex ==
    BarriersActive =>
        \A r \in Ranks(world) :
            /\ pc[r].at = "load" =>
                  \A f \in Files(world) : IndexComplete(disk[FsOf(world, r)][f])
            /\ pc[r].at # "failed"

\* C5 witness: two nodes with their own filesystems; a rank of the second node
\* that is not its local rank 0 has left the second barrier and is in the load
\* phase, reading the index files of its own node's filesystem, while the
\* local rank 0 of its node is still inside that barrier.
C5_Witness ==
    /\ BarriersActive /\ ~world.shared_fs
    /\ world.nodes = 2 /\ world.per_node = 2
    /\ pc[3].at = "load" /\ FsOf(world, 3) # FsOf(world, 0)
    /\ pc[2].at = "wait_2"

\* C6: with barriers active, at no time are two processes inside the build of
\* the same index file on the same filesystem.
C6_NoConcurrentBuild ==
    BarriersActive =>
        \A x \in Filesystems(world), f \in Files(world) :
            Cardinality({r \in Ranks(world) : InsideBuild(r, x, f)}) <= 1

\* C6 witness: on a shared filesystem global rank 0 is writing an index file
\* while the local rank 0 of another node has not passed the first barrier.
C6_Witness ==
    /\ BarriersActive /\ world.shared_fs
    /\ world.nodes = 2 /\ world.per_node = 2
    /\ InsideBuild(0, 0, 1) /\ pc[0].step = "saving_npy"
    /\ pc[2].at = "wait_1"

ExpectedBarriers == IF BarriersActive THEN 2 ELSE 0
InLoadPhase(r) == pc[r].at \in {"load", "loaded", "failed"}

\* C7: every rank that constructs the dataset calls the same barriers (two
\* when barriers are active, none otherwise) and eventually reaches the load
\* phase.
C7_AllReachLoad ==
    <>(\A r \in Constructing : InLoadPhase(r) /\ calls[r] = ExpectedBarriers)

\* C7 witness: two nodes of two ranks; every rank has passed two barriers and is
\* in the load phase.
C7_Witness ==
    /\ BarriersActive
    /\ world.nodes = 2 /\ world.per_node = 2
    /\ \A r \in Ranks(world) : InLoadPhase(r) /\ calls[r] = 2

-----------------------------------------------------------------------------
(* SpecStore: a TextMemMapDataset over data files on one filesystem *)

\* __idx_version__
IdxVersion == "0.2"

\* the bytes of the data files: the newline byte and another one
Bytes == {NewlineInt, 97}

\* a Python list or numpy array from a TLA+ sequence
ToArr(seq) == [k \in 0..(Len(seq) - 1) |-> seq[k + 1]]

\* the elements of a set of numbers as an increasing array (np.where(...)[0])
SortedArr(S) == [k \in 0..(Cardinality(S) - 1) |->
                   CHOOSE e \in S : Cardinality({x \in S : x < e}) = k]

\* a with v appended
Append0(a, v) == [k \in 0..ALen(a) |-> IF k < ALen(a) THEN a[k] ELSE v]

\* build_index_fn (build_index_from_memdata): the offsets of the newline
\* bytes of the file, and the end of the file when it does not end with one
BuildIndexFromMemdata(mdata) ==
    LET newlines == SortedArr({p \in DOMAIN mdata : mdata[p] = NewlineInt})
    IN  IF ALen(mdata) > 0 /\ mdata[ALen(mdata) - 1] = NewlineInt
        THEN newlines
        ELSE Append0(newlines, ALen(mdata))

\* the two sidecar files of a data file; "complete" tells whether the .info
\* file holds the whole pickle, a version of "" that the dict has no "version"
NoSidecar == [npy |-> [exists |-> FALSE, midx |-> EmptyArr],
              info |-> [exists |-> FALSE, complete |-> FALSE, newline_int |-> 0, version |-> ""]]

\* a plausible slip: the .npy file alone tells that the index is there
SidecarExistsNpyOnly(sc) == sc.npy.exists

\* _index_file_exists on the sidecar files of one data file
SidecarExists(sc) == sc.npy.exists /\ sc.info.exists

\* a plausible slip: the index is rebuilt on every call
BuildMemmapIndexFilesAlways(sc, mdata) ==
    [npy |-> [exists |-> TRUE, midx |-> BuildIndexFromMemdata(mdata)],
     info |-> [exists |-> TRUE, complete |-> TRUE, newline_int |-> NewlineInt,
               version |-> IdxVersion]]

\* _build_memmap_index_files: the sidecar files of a data file after the call
BuildMemmapIndexFiles(sc, mdata) ==
    IF SidecarExists(sc) THEN sc
    ELSE [npy |-> [exists |-> TRUE, midx |-> BuildIndexFromMemdata(mdata)],
          info |-> [exists |-> TRUE, complete |-> TRUE, newline_int |-> NewlineInt,
                    version |-> IdxVersion]]

\* _build_memmap_index_files: what the call returns
BuildReturns(sc) == ~SidecarExists(sc)

\* _build_memmap_index_files killed between np.save and the end of
\* pickle.dump: the .npy file is saved, the .info file is not there yet
\* (info_created = FALSE) or was created by open(..., "wb") and is still empty
InterruptedBuild(mdata, info_created) ==
    [npy |-> [exists |-> TRUE, midx |-> BuildIndexFromMemdata(mdata)],
     info |-> [exists |-> info_created, complete |-> FALSE, newline_int |-> 0, version |-> ""]]

\* a plausible slip: a dict without "version" passes for the current version
InfoVersionDefaultsCurrent(info) == IF info.version = "" THEN IdxVersion ELSE info.version

\* load_file: idx_info_dict.get("version", "0.0")
InfoVersion(info) == IF info.version = "" THEN "0.0" ELSE info.version

\* a plausible slip: no test for the header
LoadStatusNoHeaderTest(sc, header_lines) ==
    IF ~SidecarExists(sc) THEN "ValueError"
    ELSE IF ~sc.info.complete THEN "EOFError"
    ELSE IF InfoVersion(sc.info) # IdxVersion THEN "RuntimeError: Version mismatch"
    ELSE "ok"

\* TextMemMapDataset.load_file: "ok" or the error it raises (pickle.load
\* raises EOFError on an .info file that does not hold the whole pickle)
LoadStatus(sc, header_lines) ==
    IF ~SidecarExists(sc) THEN "ValueError"
    ELSE IF ALen(sc.npy.midx) < header_lines THEN "RuntimeError: Missing header"
    ELSE IF ~sc.info.complete THEN "EOFError"
    ELSE IF InfoVersion(sc.info) # IdxVersion THEN "RuntimeError: Version mismatch"
    ELSE "ok"

\* mdata[i:j] for i, j >= 0 (numpy clamps the bounds), decoded: the text as
\* the sequence of its characters
FetchSample(mdata, i, j) ==
    LET lo == Min(i, ALen(mdata))
        hi == Min(j, ALen(mdata))
    IN  [k \in 1..(hi - lo) |-> mdata[lo + k - 1]]

\* a plausible slip: np.digitize(..., right=True)
FileIdRight(idx, bins) == Cardinality({k \in DOMAIN bins : bins[k] < idx})

\* __getitem__: "Identify the file containing the record"
FileId(idx, bins) == Digitize(idx, bins)

\* a plausible slip: the header lines are not skipped
FileIdxNoHeader(d, idx) ==
    LET file_id == FileId(idx, d.midx_bins)
        base_idx == IF file_id > 0 THEN d.midx_bins[file_id - 1] ELSE 0
    IN  idx - base_idx

\* __getitem__: the record number inside the file, header lines included
FileIdx(d, idx) ==
    LET file_id == FileId(idx, d.midx_bins)
        base_idx == IF file_id > 0 THEN d.midx_bins[file_id - 1] ELSE 0
    IN  idx - base_idx + d.header_lines

\* a plausible slip: the newline byte before the record is not skipped
RecordStartKeepsNewline(midx, file_idx) == IF file_idx = 0 THEN 0 ELSE midx[file_idx - 1]

\* __getitem__: where the record starts ("ignore newline") and ends
RecordStart(midx, file_idx) == IF file_idx = 0 THEN 0 ELSE midx[file_idx - 1] + 1
RecordEnd(midx, file_idx) == midx[file_idx]

\* a plausible slip: an index out of range is clamped onto the nearest record
ReadItemClamps(d, idx) ==
    IF d.size = 0
    THEN [kind |-> "IndexError", file_id |-> 0, file_idx |-> 0, i |-> 0, j |-> 0, text |-> <<>>]
    ELSE LET at == Max(0, Min(idx, d.size - 1))
             file_id == FileId(at, d.midx_bins)
             file_idx == FileIdx(d, at)
             mdata == d.mdata_midx_list[file_id].mdata
             midx == d.mdata_midx_list[file_id].midx
             i == RecordStart(midx, file_idx)
             j == RecordEnd(midx, file_idx)
         IN  [kind |-> "text", file_id |-> file_id, file_idx |-> file_idx,
              i |-> i, j |-> j, text |-> FetchSample(mdata, i, j)]

\* TextMemMapDataset.__getitem__ on an open dataset, without a tokenizer
ReadItem(d, idx) ==
    IF idx >= d.size \/ idx < 0
    THEN [kind |-> "IndexError", file_id |-> 0, file_idx |-> 0, i |-> 0, j |-> 0, text |-> <<>>]
    ELSE LET file_id == FileId(idx, d.midx_bins)
             file_idx == FileIdx(d, idx)
             mdata == d.mdata_midx_list[file_id].mdata
             midx == d.mdata_midx_list[file_id].midx
             i == RecordStart(midx, file_idx)
             j == RecordEnd(midx, file_idx)
         IN  [kind |-> "text", file_id |-> file_id, file_idx |-> file_idx,
              i |-> i, j |-> j, text |-> FetchSample(mdata, i, j)]

\* the data files of a job: at least one file, no file empty, MaxBytes bytes
\* in all
Contents(n) == {ToArr(c) : c \in [1..n -> Bytes]}
RECURSIVE FileLists(_)
FileLists(n) ==
    {<<>>} \cup UNION {{<<c>> \o rest : c \in Contents(k), rest \in FileLists(n - k)} : k \in 1..n}

NewDataset(header_lines) ==
    [state |-> "new", header_lines |-> header_lines, mdata_midx_list |-> EmptyArr,
     midx_bins |-> EmptyArr, size |-> 0]

\* the versions an index written by an earlier release records: an older
\* version, or none
StaleVersions == {"0.1", ""}

\* the index files an earlier release left for a data file
OldIndex(mdata, version) ==
    [npy |-> [exists |-> TRUE, midx |-> BuildIndexFromMemdata(mdata)],
     info |-> [exists |-> TRUE, complete |-> TRUE, newline_int |-> NewlineInt,
               version |-> version]]

\* no data file has index files yet, or all have them from an earlier release
StoreInit ==
    /\ SamplerIdle
    /\ DistIdle
    /\ AuxIdle
    /\ \E fl \in FileLists(MaxBytes), header_lines \in 0..MaxHeaderLines :
         /\ Len(fl) >= 1
         /\ data_files = ToArr(fl)
         /\ \/ sidecar = [k \in 0..(Len(fl) - 1) |-> NoSidecar]
            \/ \E version \in StaleVersions :
                  sidecar = [k \in 0..(Len(fl) - 1) |-> OldIndex(fl[k + 1], version)]
         /\ dataset = NewDataset(header_lines)
    /\ sarg = 0
    /\ sret = NoRead

\* TextMemMapDataset.__init__ outside a distributed job: build the index
\* files, load every file, compute the bins
Construct ==
    /\ dataset.state # "open"
    /\ LET built_sc == [k \in DOMAIN data_files |-> BuildMemmapIndexFiles(sidecar[k], data_files[k])]
           failed == {k \in DOMAIN data_files : LoadStatus(built_sc[k], dataset.header_lines) # "ok"}
           mdata_midx_list == [k \in DOMAIN data_files |->
                                 [mdata |-> data_files[k], midx |-> built_sc[k].npy.midx]]
           midx_bins == CumSum([k \in DOMAIN data_files |->
                                  ALen(built_sc[k].npy.midx) - dataset.header_lines])
       IN  /\ sidecar' = built_sc
           /\ dataset' =
                IF failed # {}
                THEN [dataset EXCEPT !.state = LoadStatus(built_sc[CHOOSE k \in failed : \A q \in failed : k <= q],
                                                         dataset.header_lines)]
                ELSE [dataset EXCEPT !.state = "open",
                                     !.mdata_midx_list = mdata_midx_list,
                                     !.midx_bins = midx_bins,
                                     !.size = midx_bins[ALen(midx_bins) - 1]]
    /\ UNCHANGED <<data_files, sarg, sret>>
    /\ UNCHANGED <<samplerVars, distVars, auxVars>>

\* dataset[idx]
StoreGetItem(idx) ==
    /\ dataset.state = "open"
    /\ sarg' = idx
    /\ sret' = ReadItem(dataset, idx)
    /\ UNCHANGED <<data_files, sidecar, dataset>>
    /\ UNCHANGED <<samplerVars, distVars, auxVars>>

\* the process is killed inside build_index_files, while it writes the index
\* files of data file k: the files before k have theirs, k has a saved .npy
\* and no complete .info
ConstructKilled(k, info_created) ==
    /\ dataset.state # "open"
    /\ k \in DOMAIN data_files
    /\ ~SidecarExists(sidecar[k])
    /\ sidecar' = [q \in DOMAIN data_files |->
                     IF q < k THEN BuildMemmapIndexFiles(sidecar[q], data_files[q])
                     ELSE IF q = k THEN InterruptedBuild(data_files[k], info_created)
                     ELSE sidecar[q]]
    /\ dataset' = [dataset EXCEPT !.state = "killed"]
    /\ UNCHANGED <<data_files, sarg, sret>>
    /\ UNCHANGED <<samplerVars, distVars, auxVars>>

\* __del__: the instance is dropped; the index files stay
Del ==
    /\ dataset.state = "open"
    /\ dataset' = NewDataset(dataset.header_lines)
    /\ sarg' = 0
    /\ sret' = NoRead
    /\ UNCHANGED <<data_files, sidecar>>
    /\ UNCHANGED <<samplerVars, distVars, auxVars>>

\* the caller follows "Please delete existing '.idx' files" after a failed
\* or killed construction
DeleteIndexFiles ==
    /\ dataset.state \notin {"new", "open"}
    /\ \E k \in DOMAIN sidecar : sidecar[k] # NoSidecar
    /\ sidecar' = [k \in DOMAIN sidecar |-> NoSidecar]
    /\ dataset' = NewDataset(dataset.header_lines)
    /\ UNCHANGED <<data_files, sarg, sret>>
    /\ UNCHANGED <<samplerVars, distVars, auxVars>>

StoreNext ==
    \/ Construct
    \/ \E k \in DOMAIN data_files, info_created \in BOOLEAN : ConstructKilled(k, info_created)
    \/ \E idx \in (-1)..dataset.size : StoreGetItem(idx)
    \/ Del
    \/ DeleteIndexFiles

SpecStore == StoreInit /\ [][StoreNext]_vars

-----------------------------------------------------------------------------
(* Claims about TextMemMapDataset, checked under SpecStore *)

Open == dataset.state = "open"
Stores == DOMAIN dataset.mdata_midx_list
Midx(s) == dataset.mdata_midx_list[s].midx
Mdata(s) == dataset.mdata_midx_list[s].mdata
\* the usable records of store s, and the global index of its first record
Usable(s) == ALen(Midx(s)) - dataset.header_lines
BaseOf(s) == IF s = 0 THEN 0 ELSE dataset.midx_bins[s - 1]
\* the (store, local record number) that dataset[idx] reads
Selected(idx) == <<FileId(idx, dataset.midx_bins),
                   FileIdx(dataset, idx) - dataset.header_lines>>

\* C8: len(dataset) == bins[-1] == the sum of the usable lengths; every global
\* index selects the first store s with bins[s] > i and a local record number
\* i - bins[s-1] inside that store; distinct indices select distinct
\* (store, local) pairs and every usable record is selected by some index.
C8_BinsBijection ==
    Open =>
        /\ dataset.size = dataset.midx_bins[ALen(dataset.midx_bins) - 1]
        /\ dataset.size = SumTo([s \in Stores |-> Usable(s)], ALen(dataset.midx_bins) - 1)
        /\ \A idx \in 0..(dataset.size - 1) :
              LET s == Selected(idx)[1]
                  local == Selected(idx)[2]
              IN  /\ s \in Stores
                  /\ dataset.midx_bins[s] > idx
                  /\ \A q \in Stores : q < s => dataset.midx_bins[q] <= idx
                  /\ local = idx - BaseOf(s)
                  /\ 0 <= local /\ local < Usable(s)
        /\ \A a, b \in 0..(dataset.size - 1) : Selected(a) = Selected(b) => a = b
        /\ \A s \in Stores : \A k \in 0..(Usable(s) - 1) :
              \E idx \in 0..(dataset.size - 1) : Selected(idx) = <<s, k>>
        /\ sret.kind = "text" =>
              <<sret.file_id, sret.file_idx - dataset.header_lines>> = Selected(sarg)

\* C8 witness: a record was read from a store that comes after a store with no
\* usable record.
C8_Witness ==
    /\ Open /\ sret.kind = "text"
    /\ sret.file_id >= 1
    /\ \E q \in Stores : q < sret.file_id /\ Usable(q) = 0
    /\ \E q \in Stores : q < sret.file_id /\ Usable(q) > 0

\* the records 0..len-1 of store s (header_lines = 0) joined with the newline
RECURSIVE JoinRecords(_, _)
JoinRecords(s, k) ==
    LET text == FetchSample(Mdata(s), RecordStart(Midx(s), k), RecordEnd(Midx(s), k))
    IN  IF k = 0 THEN text ELSE JoinRecords(s, k - 1) \o <<NewlineInt>> \o text
Rejoined(s) == JoinRecords(s, ALen(Midx(s)) - 1)
Content(s) == [k \in 1..ALen(Mdata(s)) |-> Mdata(s)[k - 1]]
EndsWithNewline(s) == Mdata(s)[ALen(Mdata(s)) - 1] = NewlineInt
IsProperPrefix(a, b) == Len(a) < Len(b) /\ a = SubSeq(b, 1, Len(a))

\* C9 as stated: with header_lines = 0 the records of a file rejoined with
\* the newline byte are the file content, whether or not the file ends with
\* the newline byte.
C9_RoundTripExact ==
    (Open /\ dataset.header_lines = 0) => \A s \in Stores : Rejoined(s) = Content(s)

\* C9 amended: the rejoined records are the file content when the file does
\* not end with the newline byte; when it does, they are a proper prefix of the
\* content (the final newline byte is not reproduced).
C9_RoundTrip ==
    (Open /\ dataset.header_lines = 0) =>
        \A s \in Stores :
            /\ ~EndsWithNewline(s) => Rejoined(s) = Content(s)
            /\ EndsWithNewline(s) => IsProperPrefix(Rejoined(s), Content(s))

\* C9 witness: an open dataset with a file of several records that ends with
\* the newline byte and one that does not, and a record read from it.
C9_Witness ==
    /\ Open /\ dataset.header_lines = 0 /\ sret.kind = "text"
    /\ \E s \in Stores : EndsWithNewline(s) /\ ALen(Midx(s)) >= 2
    /\ \E s \in Stores : ~EndsWithNewline(s) /\ ALen(Midx(s)) >= 2

\* what dataset[idx] returns for local record k of store s
RecordOf(s, k) == ReadItem(dataset, BaseOf(s) + k)

\* C10: a store opened with header_lines = h has len(index) - h records; record
\* k is the byte range [0, index[0]) when k + h = 0 and
\* [index[k+h-1] + 1, index[k+h]) otherwise; the first h records are never
\* returned, a returned text holds no newline byte, and the byte ranges of
\* distinct records do not overlap.
C10_RecordRanges ==
    Open =>
        \A s \in Stores :
            LET h == dataset.header_lines
            IN  /\ dataset.midx_bins[s] - BaseOf(s) = ALen(Midx(s)) - h
                /\ \A k \in 0..(Usable(s) - 1) :
                      LET r == RecordOf(s, k)
                      IN  /\ r.kind = "text" /\ r.file_id = s
                          /\ r.i = (IF k + h = 0 THEN 0 ELSE Midx(s)[k + h - 1] + 1)
                          /\ r.j = Midx(s)[k + h]
                          /\ r.i <= r.j
                          /\ h > 0 => r.i > Midx(s)[h - 1]
                          /\ \A c \in 1..Len(r.text) : r.text[c] # NewlineInt
                          /\ Len(r.text) = r.j - r.i
                /\ \A k1, k2 \in 0..(Usable(s) - 1) :
                      k1 < k2 => RecordOf(s, k1).j < RecordOf(s, k2).i

\* C10 witness: with one header line, the second usable record of a store was
\* read.
C10_Witness ==
    /\ Open /\ dataset.header_lines = 1
    /\ sret.kind = "text" /\ sret.file_idx = 2
    /\ Len(sret.text) >= 1

-----------------------------------------------------------------------------
(* Claims about the index files, checked under SpecStore *)

OkIndex(sc) == SidecarExists(sc) /\ sc.info.complete /\ sc.info.version = IdxVersion
\* both sidecar files are there and the .info records another version, or none
Stale(sc) == SidecarExists(sc) /\ sc.info.complete /\ sc.info.version # IdxVersion
SomeStale == \E k \in DOMAIN sidecar : Stale(sidecar[k])
FirstStale == CHOOSE k \in DOMAIN sidecar :
                 Stale(sidecar[k]) /\ \A q \in DOMAIN sidecar : q < k => ~Stale(sidecar[q])
VersionMismatch == "RuntimeError: Version mismatch"
MissingHeader == "RuntimeError: Missing header"
\* the index of data file q, once build_index_files has run, loads
LoadsAfterBuild(q) ==
    LoadStatus(BuildMemmapIndexFiles(sidecar[q], data_files[q]), dataset.header_lines) = "ok"

\* C11 as stated: when a data file has a stale index, constructing the dataset
\* fails with the version-mismatch error and leaves the index files as they are.
C11_StaleFailsWithVersionMismatch ==
    [][(Construct /\ SomeStale) => (dataset'.state = VersionMismatch /\ sidecar' = sidecar)]_vars

\* C11 amended: when a data file has a stale index, every construction fails
\* and leaves the stale index files as they are; it fails with the
\* version-mismatch error when the stale index has at least header_lines
\* entries, and with the header-mismatch error, which load_file tests first,
\* when it has fewer (the files before it loading).
C11_StaleStaysFatal ==
    [][(Construct /\ SomeStale) =>
          /\ \A k \in DOMAIN sidecar : Stale(sidecar[k]) => sidecar'[k] = sidecar[k]
          /\ dataset'.state # "open"
          /\ dataset'.mdata_midx_list = EmptyArr
          /\ (\A q \in DOMAIN sidecar : q < FirstStale => LoadsAfterBuild(q)) =>
                dataset'.state =
                    IF ALen(sidecar[FirstStale].npy.midx) < dataset.header_lines
                    THEN MissingHeader ELSE VersionMismatch]_vars

\* C11 witness: a construction over two or more data files failed with the
\* version-mismatch error on index files that record no version.
C11_Witness ==
    /\ dataset.state = VersionMismatch
    /\ ALen(data_files) >= 2
    /\ \A k \in DOMAIN sidecar : Stale(sidecar[k]) /\ sidecar[k].info.version = ""

\* C12: when both sidecar files exist the build returns False and leaves them
\* unchanged; when one is missing it scans the data file, writes both and
\* returns True; a second build after that returns False and changes nothing.
C12_BuildIdempotent ==
    \A k \in DOMAIN data_files :
        LET sc == sidecar[k]
            once == BuildMemmapIndexFiles(sc, data_files[k])
        IN  /\ SidecarExists(sc) => (~BuildReturns(sc) /\ once = sc)
            /\ ~SidecarExists(sc) =>
                  /\ BuildReturns(sc)
                  /\ OkIndex(once)
                  /\ once.npy.midx = BuildIndexFromMemdata(data_files[k])
                  /\ once.info.newline_int = NewlineInt
            /\ ~BuildReturns(once)
            /\ BuildMemmapIndexFiles(once, data_files[k]) = once
            /\ dataset.state = "open" => sidecar[k] = once

\* C12 witness: a dataset was constructed and dropped; the index files it built
\* are there for the next build.
C12_Witness ==
    /\ dataset.state = "new"
    /\ ALen(data_files) >= 2
    /\ \A k \in DOMAIN sidecar : OkIndex(sidecar[k])

\* a build was killed after np.save: the .npy file is there, the .info file is
\* absent or empty
Interrupted(sc) == sc.npy.exists /\ ~sc.info.complete

\* C13 as stated: an index left with a saved .npy file and an absent or partly
\* written .info file is left as it is by every later construction, which fails.
C13_NeverRepaired ==
    [][Construct =>
          \A k \in DOMAIN sidecar :
              Interrupted(sidecar[k]) => (sidecar'[k] = sidecar[k] /\ dataset'.state # "open")]_vars

\* C13 amended: when the .info file was created and is not complete, every later
\* construction leaves both files as they are and fails; when the .info file is
\* absent, the next build finds the index missing, scans the data file again
\* and writes both files.
C13_PartialInfoNotRepaired ==
    [][Construct =>
          \A k \in DOMAIN sidecar :
              /\ (Interrupted(sidecar[k]) /\ sidecar[k].info.exists) =>
                    /\ sidecar'[k] = sidecar[k]
                    /\ dataset'.state # "open"
                    /\ dataset'.mdata_midx_list = EmptyArr
              /\ (Interrupted(sidecar[k]) /\ ~sidecar[k].info.exists) =>
                    /\ OkIndex(sidecar'[k])
                    /\ sidecar'[k].npy.midx = BuildIndexFromMemdata(data_files[k])]_vars

\* C13 witness: the build of the first of several data files was killed with
\* an empty .info file; the next construction built the index of the other
\* files and failed on the first.
C13_Witness ==
    /\ dataset.state = "EOFError"
    /\ ALen(data_files) >= 2
    /\ Interrupted(sidecar[0]) /\ sidecar[0].info.exists
    /\ \A k \in DOMAIN sidecar : k > 0 => OkIndex(sidecar[k])

Failures == {"ValueError", MissingHeader, "EOFError", VersionMismatch}

\* C14: load_file succeeds only if both sidecar files exist, the version is the
\* expected one and the index has at least header_lines entries; it raises
\* the index-missing error when a sidecar file is absent and the
\* header-mismatch error when both exist and the index is shorter than
\* header_lines; a failed construction holds no store, and an open dataset has
\* len(index) >= header_lines for every store and a non-negative length.
C14_OpenOnlyOnValidIndex ==
    /\ \A k \in DOMAIN sidecar :
          LET sc == sidecar[k]
              status == LoadStatus(sc, dataset.header_lines)
          IN  /\ status = "ok" =>
                    /\ SidecarExists(sc)
                    /\ InfoVersion(sc.info) = IdxVersion
                    /\ ALen(sc.npy.midx) >= dataset.header_lines
              /\ ~SidecarExists(sc) => status = "ValueError"
              /\ (SidecarExists(sc) /\ ALen(sc.npy.midx) < dataset.header_lines) =>
                    status = MissingHeader
              /\ status \in Failures \cup {"ok"}
    /\ dataset.state \in Failures =>
          /\ dataset.mdata_midx_list = EmptyArr /\ dataset.size = 0
          /\ \E k \in DOMAIN sidecar : LoadStatus(sidecar[k], dataset.header_lines) = dataset.state
    /\ Open =>
          /\ \A s \in Stores :
                /\ LoadStatus(sidecar[s], dataset.header_lines) = "ok"
                /\ Midx(s) = sidecar[s].npy.midx
                /\ ALen(Midx(s)) >= dataset.header_lines
          /\ dataset.size >= 0

\* C14 witness: a construction with two header lines failed with the
\* header-mismatch error on a data file of one line, after loading a file of
\* two lines or more.
C14_Witness ==
    /\ dataset.state = MissingHeader /\ dataset.header_lines = 2
    /\ ALen(data_files) >= 2
    /\ ALen(sidecar[0].npy.midx) >= 2
    /\ \E k \in DOMAIN sidecar : OkIndex(sidecar[k]) /\ ALen(sidecar[k].npy.midx) = 1

-----------------------------------------------------------------------------
(* Claims about TextMemMapDataset[i] out of range, checked under SpecStore *)

\* the indices out of range, up to len(dataset) + 1 past either end
OutOfDataset(d) == ((-(d.size + 2))..(-1)) \cup (d.size..(2 * d.size + 1))
IndexErrorRead == [kind |-> "IndexError", file_id |-> 0, file_idx |-> 0, i |-> 0, j |-> 0,
                   text |-> <<>>]

\* C20: dataset[i] raises IndexError for every i < 0 and every
\* i >= len(dataset); the index is not clamped or wrapped and no file is read.
C20_StoreOutOfRangeRaises ==
    Open =>
        /\ \A i \in OutOfDataset(dataset) : ReadItem(dataset, i) = IndexErrorRead
        /\ (sret.kind # "none" /\ sarg \in OutOfDataset(dataset)) => sret = IndexErrorRead

\* C20 witness: dataset[-1] raised on a dataset of several files and records.
C20_Witness ==
    /\ Open /\ ALen(data_files) >= 2 /\ dataset.size >= 3
    /\ sarg = -1 /\ sret.kind = "IndexError"

-----------------------------------------------------------------------------
(* SpecBuild: calls of _build_memmap_index_files, one data file at a time,  *)
(* with any build_index_fn                                                   *)

MaxBuildBytes == 3

\* the dtype of np.asarray(midx) for what a build_index_fn may return
Dtypes == {"int64", "uint8", "float64", "bool"}

\* np.issubdtype(midx.dtype, np.integer)
IsInteger(dtype) == dtype \in {"int64", "uint8"}

\* a plausible slip: the scan result is saved before it is validated
BuildCallSavesFirst(sc, mdata, dtype) ==
    IF SidecarExists(sc) THEN [files |-> sc, ret |-> "False"]
    ELSE IF ~IsInteger(dtype)
         THEN [files |-> InterruptedBuild(mdata, FALSE), ret |-> "TypeError"]
         ELSE [files |-> BuildMemmapIndexFiles(sc, mdata), ret |-> "True"]

\* _build_memmap_index_files when build_index_fn returns an array of that
\* dtype: the sidecar files after the call, and what the call returns or raises
BuildCall(sc, mdata, dtype) ==
    IF SidecarExists(sc) THEN [files |-> sc, ret |-> "False"]
    ELSE IF ~IsInteger(dtype)
         THEN [files |-> sc, ret |-> "TypeError"]
         ELSE [files |-> BuildMemmapIndexFiles(sc, mdata), ret |-> "True"]

\* data files without index files, no dataset instance
BuildInit ==
    /\ SamplerIdle
    /\ DistIdle
    /\ \E fl \in FileLists(MaxBuildBytes) :
         /\ Len(fl) >= 1
         /\ data_files = ToArr(fl)
         /\ sidecar = [k \in 0..(Len(fl) - 1) |-> NoSidecar]
    /\ dataset = <<>>
    /\ sarg = 0
    /\ sret = NoRead
    /\ bcall = NoBuild
    /\ RecordIdle
    /\ PathIdle
    /\ TeardownIdle
    /\ SftIdle

\* _build_memmap_index_files(newline_int, build_index_fn, fn, index_mapping_dir)
BuildFile(k, dtype) ==
    /\ \E out \in {BuildCall(sidecar[k], data_files[k], dtype)} :
         /\ sidecar' = [sidecar EXCEPT ![k] = out.files]
         /\ bcall' = [fn |-> k, dtype |-> dtype, ret |-> out.ret]
    /\ UNCHANGED <<data_files, dataset, sarg, sret>>
    /\ UNCHANGED <<samplerVars, distVars, recordVars, pathVars, teardownVars, sftVars>>

\* the process is killed between np.save and the end of pickle.dump
BuildFileKilled(k, info_created) ==
    /\ ~SidecarExists(sidecar[k])
    /\ sidecar' = [sidecar EXCEPT ![k] = InterruptedBuild(data_files[k], info_created)]
    /\ bcall' = [fn |-> k, dtype |-> "int64", ret |-> "killed"]
    /\ UNCHANGED <<data_files, dataset, sarg, sret>>
    /\ UNCHANGED <<samplerVars, distVars, recordVars, pathVars, teardownVars, sftVars>>

BuildNext ==
    \/ \E k \in DOMAIN data_files, dtype \in Dtypes : BuildFile(k, dtype)
    \/ \E k \in DOMAIN data_files, info_created \in BOOLEAN : BuildFileKilled(k, info_created)

SpecBuild == BuildInit /\ [][BuildNext]_vars

\* C21: a build whose scan function returns a non-integer array raises
\* TypeError, and a build that raises TypeError leaves both index files of
\* every data file as they were, so that a later build with an integer scan
\* meets the same files and builds the index
C21_FailedScanWritesNothing ==
    [][/\ \A k \in DOMAIN data_files, dtype \in Dtypes :
            (BuildFile(k, dtype) /\ ~IsInteger(dtype) /\ ~SidecarExists(sidecar[k]))
                => bcall'.ret = "TypeError"
       /\ bcall'.ret = "TypeError"
            => /\ sidecar' = sidecar
               /\ BuildCall(sidecar'[bcall'.fn], data_files[bcall'.fn], "int64").ret = "True"]_vars

\* a failed build of a file whose .npy an interrupted build left behind,
\* next to a file that has its index
C21_Witness ==
    /\ bcall.ret = "TypeError"
    /\ bcall.dtype = "float64"
    /\ sidecar[bcall.fn] = InterruptedBuild(data_files[bcall.fn], FALSE)
    /\ \E k \in DOMAIN sidecar : SidecarExists(sidecar[k])

-----------------------------------------------------------------------------
(* SpecRecord: reading and parsing records, with bytes that do not decode    *)
(* and texts that do not parse                                               *)

MaxRecordBytes == 3

\* the newline byte, "1", "a" and a byte that no UTF-8 text holds
RecordBytes == {NewlineInt, 49, 97, 255}

\* bytes.decode("utf-8") succeeds
Decodes(bytes) == \A c \in 1..Len(bytes) : bytes[c] < 128

RaisedData(kind) == [kind |-> kind, data |-> <<>>]
ReturnedData(data) == [kind |-> "data", data |-> data]

\* json.loads(text) for texts over "1" and "a": a number, or JSONDecodeError
RECURSIVE Ones(_)
Ones(n) == IF n = 0 THEN 0 ELSE 10 * Ones(n - 1) + 1
JsonLoads(text) ==
    IF Len(text) >= 1 /\ \A c \in 1..Len(text) : text[c] = 49
    THEN ReturnedData(<<Ones(Len(text))>>)
    ELSE RaisedData("JSONDecodeError")

\* tokenizer.text_to_ids(text) of a tokenizer that knows "1" alone: one id
\* for each character, or KeyError
TextToIds(text) ==
    IF \A c \in 1..Len(text) : text[c] = 49
    THEN ReturnedData([c \in 1..Len(text) |-> 1])
    ELSE RaisedData("KeyError")

\* a plausible slip: a text that does not parse yields an empty value
BuildDataFromTextSwallows(p, text) ==
    LET out == IF p = "json" THEN JsonLoads(text)
               ELSE IF p = "tokenizer" THEN TextToIds(text)
               ELSE ReturnedData(text)
    IN  IF out.kind = "data" THEN out ELSE ReturnedData(<<>>)

\* _build_data_from_text of TextMemMapDataset (p = "none", "tokenizer") and
\* of JSONLMemMapDataset (p = "json")
BuildDataFromText(p, text) ==
    IF p = "json" THEN JsonLoads(text)
    ELSE IF p = "tokenizer" THEN TextToIds(text)
    ELSE ReturnedData(text)

\* TextMemMapDataset.__getitem__: fetch and decode the bytes, parse the text;
\* both except clauses log and raise the error again
GetItemData(d, p, idx) ==
    LET r == ReadItem(d, idx)
    IN  IF r.kind = "IndexError" THEN RaisedData("IndexError")
        ELSE IF ~Decodes(r.text) THEN RaisedData("UnicodeDecodeError")
        ELSE BuildDataFromText(p, r.text)

RecordContents(n) == {ToArr(c) : c \in [1..n -> RecordBytes]}
RECURSIVE RecordFileLists(_)
RecordFileLists(n) ==
    {<<>>} \cup UNION {{<<c>> \o rest : c \in RecordContents(k), rest \in RecordFileLists(n - k)} :
                        k \in 1..n}

\* data files without index files and a dataset about to be constructed
RecordInit ==
    /\ SamplerIdle
    /\ DistIdle
    /\ BuildIdle
    /\ \E fl \in RecordFileLists(MaxRecordBytes), header_lines \in 0..1 :
         /\ Len(fl) >= 1
         /\ data_files = ToArr(fl)
         /\ sidecar = [k \in 0..(Len(fl) - 1) |-> NoSidecar]
         /\ dataset = NewDataset(header_lines)
    /\ sarg = 0
    /\ sret = NoRead
    /\ parser \in {"none", "tokenizer", "json"}
    /\ rdata = NoData
    /\ PathIdle
    /\ TeardownIdle
    /\ SftIdle

\* dataset[idx]
RecordGetItem(idx) ==
    /\ dataset.state = "open"
    /\ sarg' = idx
    /\ sret' = ReadItem(dataset, idx)
    /\ rdata' = GetItemData(dataset, parser, idx)
    /\ UNCHANGED <<data_files, sidecar, dataset, parser>>
    /\ UNCHANGED <<samplerVars, distVars, buildVars, pathVars, teardownVars, sftVars>>

RecordNext ==
    \/ Construct
    \/ \E idx \in (-1)..dataset.size : RecordGetItem(idx)

SpecRecord == RecordInit /\ [][RecordNext]_vars

\* the lines of a file: its bytes split at the newline byte, without the
\* empty piece after a final newline byte
RECURSIVE SplitLines(_, _, _)
SplitLines(mdata, k, line) ==
    IF k = ALen(mdata)
    THEN IF line = <<>> /\ mdata[k - 1] = NewlineInt THEN <<>> ELSE <<line>>
    ELSE IF mdata[k] = NewlineInt
         THEN <<line>> \o SplitLines(mdata, k + 1, <<>>)
         ELSE SplitLines(mdata, k + 1, Append(line, mdata[k]))

\* the lines after the header lines of every data file, in the order of the files
RECURSIVE LinesFrom(_)
LinesFrom(k) ==
    IF k = ALen(data_files) THEN <<>>
    ELSE LET lines == SplitLines(data_files[k], 0, <<>>)
         IN  SubSeq(lines, dataset.header_lines + 1, Len(lines)) \o LinesFrom(k + 1)
OwnRecord(idx) == LinesFrom(0)[idx + 1]

RecordCalled == rdata.kind # "none"

\* C22: dataset[i] for a valid i returns the parsed text of line i and of no
\* other line; when the bytes of line i do not decode or its text does not
\* parse, it raises that error and returns no value
C22_RecordFaultsPropagate ==
    (RecordCalled /\ sarg >= 0 /\ sarg < dataset.size) =>
        \A own \in {OwnRecord(sarg)} :
            /\ ~Decodes(own) => rdata = RaisedData("UnicodeDecodeError")
            /\ (Decodes(own) /\ parser = "json" /\ \E c \in 1..Len(own) : own[c] # 49)
                  => rdata = RaisedData("JSONDecodeError")
            /\ (Decodes(own) /\ parser = "json" /\ own = <<>>)
                  => rdata = RaisedData("JSONDecodeError")
            /\ (Decodes(own) /\ parser = "tokenizer" /\ \E c \in 1..Len(own) : own[c] # 49)
                  => rdata = RaisedData("KeyError")
            /\ rdata.kind = "data"
                  => /\ Decodes(own)
                     /\ parser = "none" => rdata.data = own
                     /\ parser = "tokenizer" => rdata.data = [c \in 1..Len(own) |-> 1]
                     /\ parser = "json" => rdata.data = <<Ones(Len(own))>> /\ own # <<>>

\* a JSON line that does not parse, before a line that does
C22_Witness ==
    /\ parser = "json"
    /\ rdata = RaisedData("JSONDecodeError")
    /\ sarg + 1 < dataset.size
    /\ GetItemData(dataset, parser, sarg + 1).kind = "data"

-----------------------------------------------------------------------------
(* SpecPath: the index base names of two data files, and the index files     *)
(* built and loaded under them. A path is the sequence of its characters.    *)

MaxPathLen == 3

\* __idx_suffix__ after the "."
IdxSuffix == <<".", "i", "d", "x">>

\* str.startswith and str.lstrip with a one-character set
StartsWith(str, prefix) == Len(str) >= Len(prefix) /\ SubSeq(str, 1, Len(prefix)) = prefix
RECURSIVE Lstrip(_, _)
Lstrip(str, ch) == IF str # <<>> /\ str[1] = ch THEN Lstrip(Tail(str), ch) ELSE str

\* os.path.join(a, b) for a non-empty directory a
PathJoin(a, b) ==
    IF StartsWith(b, <<"/">>) THEN b
    ELSE IF a[Len(a)] = "/" THEN a \o b
    ELSE a \o <<"/">> \o b

\* _index_fn: the loop that removes leading "/" and ".."; fn.lstrip("..")
\* strips every leading "." character
RECURSIVE RemoveLeading(_)
RemoveLeading(fn) ==
    IF StartsWith(fn, <<"/">>) \/ StartsWith(fn, <<".", ".">>)
    THEN LET undotted == IF StartsWith(fn, <<".", ".">>) THEN Lstrip(fn, ".") ELSE fn
             unslashed == IF StartsWith(undotted, <<"/">>) THEN Lstrip(undotted, "/") ELSE undotted
         IN  RemoveLeading(unslashed)
    ELSE fn

\* _index_fn(fn, index_mapping_dir)
IndexFn(fn, dir) ==
    IF dir # <<>> THEN PathJoin(dir, RemoveLeading(fn)) \o IdxSuffix
    ELSE fn \o IdxSuffix

\* the paths of data files: up to MaxPathLen characters, the last one a letter
PathChars == {"/", ".", "a"}
FilePaths ==
    UNION {{str \in [1..n -> PathChars] : str[n] = "a"} : n \in 1..MaxPathLen}

\* two data files with different paths, no index files yet
PathInit ==
    /\ SamplerIdle
    /\ DistIdle
    /\ StoreIdle
    /\ BuildIdle
    /\ RecordIdle
    /\ TeardownIdle
    /\ SftIdle
    /\ index_mapping_dir \in {<<>>, <<"d">>}
    /\ \E p0, p1 \in FilePaths : p0 # p1 /\ dataset_paths = ToArr(<<p0, p1>>)
    /\ index_files = {}
    /\ pcall = NoPathCall

\* the data file whose index is on disk under that base name
BuiltFrom(idx_fn) == (CHOOSE e \in index_files : e[1] = idx_fn)[2]
OnDiskAt(idx_fn) == \E e \in index_files : e[1] = idx_fn

\* _build_memmap_index_files for data file k: a no-op when the index files
\* of its base name exist
PathBuild(k) ==
    /\ \E idx_fn \in {IndexFn(dataset_paths[k], index_mapping_dir)} :
         IF OnDiskAt(idx_fn)
         THEN /\ index_files' = index_files
              /\ pcall' = [fn |-> k, idx_fn |-> idx_fn, ret |-> "False", built_from |-> BuiltFrom(idx_fn)]
         ELSE /\ index_files' = index_files \cup {<<idx_fn, k>>}
              /\ pcall' = [fn |-> k, idx_fn |-> idx_fn, ret |-> "True", built_from |-> k]
    /\ UNCHANGED <<index_mapping_dir, dataset_paths>>
    /\ UNCHANGED <<samplerVars, distVars, storeVars, buildVars, recordVars, teardownVars, sftVars>>

\* load_file for data file k: the offsets are those np.load finds under the
\* base name
PathLoad(k) ==
    /\ \E idx_fn \in {IndexFn(dataset_paths[k], index_mapping_dir)} :
         pcall' = IF OnDiskAt(idx_fn)
                  THEN [fn |-> k, idx_fn |-> idx_fn, ret |-> "loaded", built_from |-> BuiltFrom(idx_fn)]
                  ELSE [fn |-> k, idx_fn |-> idx_fn, ret |-> "ValueError", built_from |-> -1]
    /\ UNCHANGED <<index_mapping_dir, dataset_paths, index_files>>
    /\ UNCHANGED <<samplerVars, distVars, storeVars, buildVars, recordVars, teardownVars, sftVars>>

PathNext ==
    \/ \E k \in DOMAIN dataset_paths : PathBuild(k)
    \/ \E k \in DOMAIN dataset_paths : PathLoad(k)

SpecPath == PathInit /\ [][PathNext]_vars

\* a path without its leading "/" and ".." segments
RECURSIVE WithoutLeadingSegments(_)
WithoutLeadingSegments(fn) ==
    IF StartsWith(fn, <<"/">>) THEN WithoutLeadingSegments(Tail(fn))
    ELSE IF fn = <<".", ".">> THEN <<>>
    ELSE IF StartsWith(fn, <<".", ".", "/">>) THEN WithoutLeadingSegments(SubSeq(fn, 3, Len(fn)))
    ELSE fn

PathCalled == pcall.ret # "none"

\* C23: with an override directory the index base name of a data file is the
\* directory joined with the path without its leading "/" and ".." segments,
\* and nothing else removed, followed by ".idx"; without one it is the path
\* followed by ".idx"
C23_IndexPathMapping ==
    PathCalled =>
        pcall.idx_fn =
            IF index_mapping_dir # <<>>
            THEN index_mapping_dir \o <<"/">> \o WithoutLeadingSegments(dataset_paths[pcall.fn]) \o IdxSuffix
            ELSE dataset_paths[pcall.fn] \o IdxSuffix

\* C28: under an override directory different data file paths have different
\* index base names, so a build that is skipped and a load both meet the index
\* built from their own data file, and the base name lies in the directory
C28_DistinctIndexPerFile ==
    (PathCalled /\ index_mapping_dir # <<>>) =>
        /\ IndexFn(dataset_paths[0], index_mapping_dir) # IndexFn(dataset_paths[1], index_mapping_dir)
        /\ pcall.ret \in {"False", "loaded"} => pcall.built_from = pcall.fn
        /\ StartsWith(pcall.idx_fn, index_mapping_dir \o <<"/">>)

-----------------------------------------------------------------------------
(* SpecTeardown: the memory mappings of one TextMemMapDataset instance from  *)
(* its construction, successful or not, to its release. A mapping that only  *)
(* the frames of a failed __init__ hold is deallocated, and so unmapped,     *)
(* when these frames are released together with the instance.                *)

MaxDel == 2

\* no file opened yet, and a dataset that may be given no path at all
TeardownInit ==
    /\ SamplerIdle
    /\ DistIdle
    /\ BuildIdle
    /\ RecordIdle
    /\ PathIdle
    /\ SftIdle
    /\ \E fl \in FileLists(MaxBuildBytes), header_lines \in 0..1 :
         /\ data_files = ToArr(fl)
         /\ \E stale \in SUBSET (0..(Len(fl) - 1)) :
               sidecar = [k \in 0..(Len(fl) - 1) |->
                            IF k \in stale THEN OldIndex(fl[k + 1], "0.1") ELSE NoSidecar]
         /\ dataset = NewDataset(header_lines)
         /\ mmaps = [k \in 0..(Len(fl) - 1) |-> "none"]
    /\ sarg = 0
    /\ sret = NoRead
    /\ released = NotReleased

\* TextMemMapDataset.__init__: mdata_midx_list is [] from line 976 on; no
\* path raises ValueError; load_file maps a file before it looks at its
\* index files, and the first file that fails to load ends the constructor
TeardownConstruct ==
    /\ dataset.state = "new"
    /\ IF ALen(data_files) < 1
       THEN /\ dataset' = [dataset EXCEPT !.state = "ValueError"]
            /\ UNCHANGED <<sidecar, mmaps>>
       ELSE LET built_sc == [k \in DOMAIN data_files |->
                               BuildMemmapIndexFiles(sidecar[k], data_files[k])]
                failed == {k \in DOMAIN data_files :
                             LoadStatus(built_sc[k], dataset.header_lines) # "ok"}
                first == CHOOSE k \in failed : \A q \in failed : k <= q
                midx_bins == CumSum([k \in DOMAIN data_files |->
                                       ALen(built_sc[k].npy.midx) - dataset.header_lines])
            IN  /\ sidecar' = built_sc
                /\ mmaps' = [k \in DOMAIN data_files |->
                               IF failed = {} \/ k <= first THEN "open" ELSE "none"]
                /\ dataset' =
                     IF failed # {}
                     THEN [dataset EXCEPT !.state = LoadStatus(built_sc[first], dataset.header_lines)]
                     ELSE [dataset EXCEPT !.state = "open",
                                          !.mdata_midx_list =
                                              [k \in DOMAIN data_files |->
                                                 [mdata |-> data_files[k], midx |-> built_sc[k].npy.midx]],
                                          !.midx_bins = midx_bins,
                                          !.size = midx_bins[ALen(midx_bins) - 1]]
    /\ UNCHANGED <<data_files, sarg, sret, released>>
    /\ UNCHANGED <<samplerVars, distVars, buildVars, recordVars, pathVars, sftVars>>

\* mmap.close(): a closed mapping stays closed
MmapClose(state) == "closed"

\* a plausible slip: the loop leaves after the first mapping
DelClosesFirst(d, mm) ==
    [k \in DOMAIN mm |->
        IF k \in DOMAIN d.mdata_midx_list /\ k = 0 THEN MmapClose(mm[k]) ELSE mm[k]]

\* TextMemMapDataset.__del__: the mappings after the call
DelCloses(d, mm) ==
    [k \in DOMAIN mm |->
        IF k \in DOMAIN d.mdata_midx_list THEN MmapClose(mm[k]) ELSE mm[k]]

\* TextMemMapDataset.__del__ reads self.mdata_midx_list, which __init__ sets
\* at line 976 before anything can raise
DelReturns(d) == IF "mdata_midx_list" \in DOMAIN d THEN "ok" ELSE "AttributeError"

\* the np.memmap objects that the frames of a failed __init__ hold are
\* deallocated with these frames
FramesReleased(d, mm) ==
    [k \in DOMAIN mm |->
        IF d.state # "open" /\ mm[k] = "open" THEN "closed" ELSE mm[k]]

\* the instance is released: __del__ runs, also a second time
TeardownDel ==
    /\ dataset.state # "new"
    /\ released.count < MaxDel
    /\ mmaps' = DelCloses(dataset, FramesReleased(dataset, mmaps))
    /\ released' = [count |-> released.count + 1, ret |-> DelReturns(dataset)]
    /\ UNCHANGED <<data_files, sidecar, dataset, sarg, sret>>
    /\ UNCHANGED <<samplerVars, distVars, buildVars, recordVars, pathVars, sftVars>>

TeardownNext ==
    \/ TeardownConstruct
    \/ TeardownDel

SpecTeardown == TeardownInit /\ [][TeardownNext]_vars

-----------------------------------------------------------------------------
(* Claims about the blocks of OnlineSampleMapping, checked under SpecSampler *)

\* block_bins[b - 1], read as 0 for the first block
BinBefore(m, b) == IF b = 0 THEN 0 ELSE m.block_bins[b - 1]

\* the blocks whose bin holds index i
BlocksHolding(m, i) ==
    {b \in 0..(m.num_blocks - 1) : BinBefore(m, b) <= i /\ i < m.block_bins[b]}

\* C25: for every i in [0, num_samples) the block that __getitem__ chooses,
\* by digitize or by integer division, is the one block b with
\* block_bins[b-1] <= i < block_bins[b], and the local offset
\* i - block_bins[b] reads element i - block_bins[b-1] of that block
C25_BlockLookup ==
    \A i \in 0..(mapping.num_samples - 1) :
        \A b \in {BlockOf(mapping, i)} :
            /\ BlocksHolding(mapping, i) = {b}
            /\ \A block \in {SampleBlock(rng, mapping, b)} :
                  /\ InRange(block, LocalIdx(mapping, i, b))
                  /\ NpGet(block, LocalIdx(mapping, i, b)) = block[i - BinBefore(mapping, b)]

\* C26: after construction there is at least one block, every block size is
\* in [1, block_size], the sizes sum to required_samples, which is the last
\* bin, and len(mapping) = num_samples <= required_samples, so that every
\* valid index lies in a block
C26_ConstructionInvariant ==
    /\ mapping.num_blocks >= 1
    /\ ALen(mapping.block_size_list) = mapping.num_blocks
    /\ \A b \in 0..(mapping.num_blocks - 1) :
          mapping.block_size_list[b] \in 1..mapping.block_size
    /\ SumTo(mapping.block_size_list, mapping.num_blocks - 1) = mapping.required_samples
    /\ mapping.block_bins[mapping.num_blocks - 1] = mapping.required_samples
    /\ MappingLen(mapping) = mapping.num_samples
    /\ mapping.num_samples <= mapping.required_samples
    /\ \A i \in 0..(MappingLen(mapping) - 1) : BlocksHolding(mapping, i) # {}

\* get_sample_block before "project indices to the dataset size": the
\* virtual indices of a block, shuffled if needed
VirtualBlock(t, m, block_idx) ==
    LET start_idx == m.block_idx_list[block_idx] * m.block_size
        end_idx == start_idx + m.block_size_list[block_idx]
        sample_block == Arange(start_idx, end_idx)
    IN  IF m.shuffle THEN Permutation(t, m.seed + block_idx, sample_block) ELSE sample_block

\* the virtual index behind position i
VirtualIndex(t, m, i) ==
    NpGet(VirtualBlock(t, m, BlockOf(m, i)), LocalIdx(m, i, BlockOf(m, i)))

\* how many of the values are v
Times(vals, v) == Cardinality({i \in DOMAIN vals : vals[i] = Returned(v)})

\* C27: the positions [0, required_samples) map one-to-one onto the virtual
\* indices [0, required_samples), shuffled or not, and mapping[i] is the
\* virtual index behind i modulo dataset_size; so without truncation and with
\* num_samples <= dataset_size no record is returned twice, and with
\* num_samples >= dataset_size every record is returned
\* floor(num_samples / dataset_size) or ceil(num_samples / dataset_size) times
C27_EachVirtualIndexOnce ==
    /\ ~Called =>
          /\ {VirtualIndex(rng, mapping, i) : i \in 0..(mapping.required_samples - 1)}
                = 0..(mapping.required_samples - 1)
          /\ \A vals \in {[i \in 0..(mapping.num_samples - 1) |-> GetItemUncached(rng, mapping, i)]} :
                /\ (mapping.num_samples <= mapping.dataset_size /\ ~mapping.truncate_to_block_boundary)
                      => \A i, j \in DOMAIN vals :
                            vals[i].kind = "value" /\ (i # j => vals[i] # vals[j])
                /\ mapping.num_samples >= mapping.dataset_size
                      => \A v \in Records :
                            Times(vals, v) \in {mapping.num_samples \div mapping.dataset_size,
                                                CeilDiv(mapping.num_samples, mapping.dataset_size)}
    /\ (Called /\ ValidArg /\ arg < mapping.required_samples)
          => ret = Returned(VirtualIndex(rng, mapping, arg) % mapping.dataset_size)

\* an up-sampled, shuffled mapping whose short block the shuffle moved away
\* from the end, read at an index of a later block
C27_Witness ==
    /\ Called /\ ValidArg /\ ret.kind = "value"
    /\ mapping.shuffle /\ mapping.use_digitize
    /\ mapping.num_samples > mapping.dataset_size
    /\ mapping.block_size_list[0] < mapping.block_size
    /\ arg >= mapping.block_bins[0]

-----------------------------------------------------------------------------
(* SpecSft: GPTSFTDataset._process_example on the token ids of the pieces    *)
(* of a filled prompt template "<template>{a}{b}{y}" with label key "y".     *)
(* Lists are sequences, indexed from 1.                                       *)

MaxPieceLen == 2
MaxGenerate == 2
MaxSeqLength == 4

\* template_strings_keys of the prompt template, and its label key
TemplateKeys == <<"<template>", "a", "b", "y">>
LabelKey == "y"

\* tokenizer.eos_id, tokenizer.bos_id and sep_id
EosId == -1
BosId == -2
SepId == -3

\* add_bos + add_sep + add_eos, the booleans counted as Python counts them
AsInt(flag) == IF flag THEN 1 ELSE 0
SpecialTokens(c) == AsInt(c.add_bos) + AsInt(c.add_sep) + AsInt(c.add_eos)

\* sum(len(ids) for ids in pieces)
RECURSIVE SumLen(_)
SumLen(pieces) == IF pieces = <<>> THEN 0 ELSE Len(Head(pieces)) + SumLen(Tail(pieces))

\* [i for ids in pieces for i in ids]
RECURSIVE Flatten(_)
Flatten(pieces) == IF pieces = <<>> THEN <<>> ELSE Head(pieces) \o Flatten(Tail(pieces))

\* _multiple_truncation: total_ids of context pieces and a label piece
TotalIds(c, context_len, label_len) ==
    c.virtual_tokens + context_len + Max(label_len, c.tokens_to_generate) + SpecialTokens(c)

\* _truncation
Truncation(method, ids, expect_length) ==
    IF expect_length = 0 THEN <<>>
    ELSE IF method = "left" THEN SubSeq(ids, Max(Len(ids) - expect_length, 0) + 1, Len(ids))
    ELSE SubSeq(ids, 1, Min(expect_length, Len(ids)))

\* _multiple_truncation: truncation_length_list, "sorted equal divide length
\* to each field"; pop() takes its last element
TruncationLengthList(total, num_fields) ==
    [k \in 1..num_fields |->
        LET i == num_fields - k
        IN  (total \div num_fields) + (IF i < total % num_fields THEN 1 ELSE 0)]

\* _multiple_truncation: the loop over the pieces whose key is a truncation
\* field, from piece i on; what is left to truncate comes back with the pieces
RECURSIVE TruncateFields(_, _, _, _, _)
TruncateFields(c, ids, i, lengths, left_total) ==
    IF i > Len(ids) THEN [ids |-> ids, total |-> left_total]
    ELSE IF TemplateKeys[i] \in c.truncation_fields
         THEN LET popped == lengths[Len(lengths)]
                  truncation_length == IF Len(ids[i]) < popped THEN Len(ids[i]) ELSE popped
              IN  TruncateFields(c,
                                 [ids EXCEPT ![i] = Truncation(c.truncation_method, ids[i],
                                                               Len(ids[i]) - truncation_length)],
                                 i + 1, SubSeq(lengths, 1, Len(lengths) - 1),
                                 left_total - truncation_length)
         ELSE TruncateFields(c, ids, i + 1, lengths, left_total)

\* _multiple_truncation: the pieces in the order the second loop visits
\* them: range(0, n, 1) for 'left', range(n - 1, -1, -1) for 'right'
Iters(method, n) == [k \in 1..n |-> IF method = "left" THEN k ELSE n + 1 - k]

\* a plausible slip: 'right' does not truncate more for the tokens to generate
RightExtraNone(c, label_ids) == 0

\* _multiple_truncation: "We need to truncate more to let context_ids +
\* tokens_to_generate < self.max_seq_length"
RightExtra(c, label_ids) ==
    IF c.truncation_method = "right" THEN Min(Len(label_ids), c.tokens_to_generate) ELSE 0

\* _multiple_truncation: "Iterate all lengths of template_ids", from the
\* k-th piece of the order on
RECURSIVE TruncateRest(_, _, _, _, _)
TruncateRest(c, ids, iters, k, left_total) ==
    IF k > Len(iters) THEN ids
    ELSE LET i == iters[k]
         IN  IF Len(ids[i]) >= left_total
             THEN [ids EXCEPT ![i] = Truncation(c.truncation_method, ids[i], Len(ids[i]) - left_total)]
             ELSE TruncateRest(c, [ids EXCEPT ![i] = <<>>], iters, k + 1, left_total - Len(ids[i]))

\* _multiple_truncation: context_ids and label_ids
MultipleTruncation(c, ids) ==
    LET n == Len(ids)
        label_ids == ids[n]
        total_ids == TotalIds(c, SumLen(SubSeq(ids, 1, n - 1)), Len(label_ids))
        num_fields == Cardinality(c.truncation_fields)
        truncation_length_total == total_ids - c.max_seq_length
        fields == IF num_fields > 0
                  THEN TruncateFields(c, ids, 1,
                                      TruncationLengthList(truncation_length_total, num_fields),
                                      truncation_length_total)
                  ELSE [ids |-> ids, total |-> truncation_length_total]
        rest == IF fields.total > 0
                THEN TruncateRest(c, fields.ids, Iters(c.truncation_method, n), 1,
                                  fields.total + RightExtra(c, label_ids))
                ELSE fields.ids
        out == IF total_ids > c.max_seq_length THEN rest ELSE ids
    IN  [context_ids |-> Flatten(SubSeq(out, 1, n - 1)), label_ids |-> out[n]]

\* _process_example, from the token ids of the pieces on
ProcessExample(c, ids) ==
    LET truncated == MultipleTruncation(c, ids)
        virtual == [k \in 1..c.virtual_tokens |-> EosId] \o truncated.context_ids
        with_bos == IF c.add_bos THEN <<BosId>> \o virtual ELSE virtual
        context_ids == IF c.add_sep THEN with_bos \o <<SepId>> ELSE with_bos
        answer_ids == truncated.label_ids
        input_ids == IF c.add_eos THEN context_ids \o answer_ids \o <<EosId>>
                     ELSE context_ids \o answer_ids
    IN  [done |-> TRUE,
         input_ids |-> input_ids,
         answer_start_idx |-> Len(context_ids),
         context_ids |-> context_ids,
         context_length |-> Len(context_ids),
         answer_ids |-> answer_ids,
         truncated_context_len |-> Len(truncated.context_ids),
         token_count |-> Len(input_ids)]

\* piece k of the template with n tokens: the ids 10k+1 .. 10k+n
Piece(k, n) == [j \in 1..n |-> 10 * k + j]

\* a dataset whose special tokens fit max_seq_length, and the pieces of one
\* example: a template piece of one token, two context fields and the label
SftInit ==
    /\ SamplerIdle
    /\ DistIdle
    /\ StoreIdle
    /\ BuildIdle
    /\ RecordIdle
    /\ PathIdle
    /\ TeardownIdle
    /\ \E max_seq_length \in 1..MaxSeqLength, virtual_tokens \in 0..1,
          tokens_to_generate \in 0..MaxGenerate, add_sep \in BOOLEAN, add_eos \in BOOLEAN,
          truncation_fields \in SUBSET {"a", "b", "y"}, truncation_method \in {"left", "right"} :
         /\ sft = [max_seq_length |-> max_seq_length, virtual_tokens |-> virtual_tokens,
                   tokens_to_generate |-> tokens_to_generate,
                   add_bos |-> FALSE, add_sep |-> add_sep, add_eos |-> add_eos,
                   truncation_fields |-> truncation_fields,
                   truncation_method |-> truncation_method]
         /\ virtual_tokens + SpecialTokens(sft) <= max_seq_length
    /\ \E a, b, y \in 0..MaxPieceLen :
         template_ids = <<Piece(1, 1), Piece(2, a), Piece(3, b), Piece(4, y)>>
    /\ processed = NotProcessed

\* dataset[idx] past the lookup of the example: _process_example
SftProcess ==
    /\ ~processed.done
    /\ processed' = ProcessExample(sft, template_ids)
    /\ UNCHANGED <<sft, template_ids>>
    /\ UNCHANGED <<samplerVars, distVars, storeVars, buildVars, recordVars, pathVars, teardownVars>>

SftNext == SftProcess

SpecSft == SftInit /\ [][SftNext]_vars

\* the label piece as tokenized, and the total of the processed example
LabelIds == template_ids[Len(template_ids)]
TotalAfter == TotalIds(sft, processed.truncated_context_len, Len(processed.answer_ids))
LabelIsField == LabelKey \in sft.truncation_fields

C30_AnswerUntouched ==
    (processed.done /\ ~LabelIsField) => processed.answer_ids = LabelIds

=============================================================================
